---- MODULE Spec2Model ----
(***************************************************************************)
(* Model of the ingestion-to-index pipeline of Llresearch-agent:           *)
(*   ingest/cleaner.py   (Normalizer)                                      *)
(*   ingest/chunker.py   (Chunk Builder)                                   *)
(*   embeddings/embed.py (Indexer)                                         *)
(*   agent/retriever.py  (Retriever)                                       *)
(*   agent/agent.py, api/routes/search.py, api/routes/chat.py (endpoints)  *)
(*                                                                         *)
(* Text is a sequence of character codes (ASCII), so that formatting,      *)
(* stripping, length thresholds and lexicographic comparison are computed  *)
(* the way Python computes them on str.                                    *)
(***************************************************************************)
EXTENDS Integers, Sequences, FiniteSets, Bags, TLC

VARIABLES
    idArgs,      \* SpecId: the two (session, question) pairs given to make_chunk_id
    idRes,       \* SpecId: the two ids returned, <<>> before the call
    record,      \* SpecChunk: the SessionRecord given to chunk_session
    chunked,     \* SpecChunk: <<result>> of the first chunk_session run, <<>> before it
    rechunked,   \* SpecChunk: <<result>> of the second chunk_session run, <<>> before it
    document,    \* SpecClean: <<text>> of the document given to the Normalizer
    extracted,   \* SpecClean: <<what the extraction returned>>, <<>> before the call
    cleaned,     \* data/cleaned/session-NNN.json per session: <<record>>, <<>> when absent
    chunkFiles,  \* data/chunks/session-NNN-chunks.json per session: <<chunk list>> or <<>>
    chunkSource, \* per session: <<the record its chunk file was written from>>, or <<>>
    allChunks,   \* data/chunks/all_chunks.json: <<chunk list>>, <<>> when absent
    store,       \* the Chroma collection: <<bag of entries>>, <<>> when it does not exist
    lastOp       \* the last operation run, and what it read and did

pureVars == <<idArgs, idRes, record, chunked, rechunked, document, extracted>>
pipeVars == <<cleaned, chunkFiles, chunkSource, allChunks, store, lastOp>>
vars == <<idArgs, idRes, record, chunked, rechunked, document, extracted,
          cleaned, chunkFiles, chunkSource, allChunks, store, lastOp>>

(***************************************************************************)
(* Bounds of the model.                                                    *)
(***************************************************************************)
\* largest session / question number given to make_chunk_id in SpecId
MaxIdNum == 1001
\* largest number of QA pairs in a SessionRecord given to chunk_session
MaxPairs == 2
\* number of states of the embedding service's model (a changed model gives
\* other vectors for the same text)
MaxEmbedVersions == 2
\* the embedding calls of a run that may fail are the first MaxFailAt
MaxFailAt == 2

(***************************************************************************)
(* Text primitives (Python str).                                           *)
(***************************************************************************)
\* the value that stands for a raised exception where a result is expected
None == "None"

\* str.isspace() on the characters the corpus holds: tab, LF, VT, FF, CR, space
IsSpace(c) == c \in {9, 10, 11, 12, 13, 32}

\* s[i:] with a 1-based i
Drop(s, i) == SubSeq(s, i, Len(s))

\* str.lstrip()
RECURSIVE LStrip(_)
LStrip(s) ==
    IF s = <<>> THEN <<>>
    ELSE IF IsSpace(Head(s)) THEN LStrip(Tail(s)) ELSE s

\* str.rstrip()
RECURSIVE RStrip(_)
RStrip(s) ==
    IF s = <<>> THEN <<>>
    ELSE IF IsSpace(s[Len(s)]) THEN RStrip(SubSeq(s, 1, Len(s) - 1)) ELSE s

\* str.strip()
Strip(s) == RStrip(LStrip(s))

\* str < str: code-point lexicographic order, a proper prefix sorts first
RECURSIVE StrLess(_, _)
StrLess(a, b) ==
    IF b = <<>> THEN FALSE
    ELSE IF a = <<>> THEN TRUE
    ELSE IF Head(a) # Head(b) THEN Head(a) < Head(b)
    ELSE StrLess(Tail(a), Tail(b))

\* str(n) for n >= 0: the decimal digits of n
RECURSIVE Digits(_)
Digits(n) ==
    IF n < 10 THEN <<48 + n>>
    ELSE Append(Digits(n \div 10), 48 + (n % 10))

\* '0' * k
RECURSIVE Zeros(_)
Zeros(k) == IF k <= 0 THEN <<>> ELSE <<48>> \o Zeros(k - 1)

\* the decimal value of a digit string
RECURSIVE DigitsValue(_)
DigitsValue(d) ==
    IF d = <<>> THEN 0
    ELSE 10 * DigitsValue(SubSeq(d, 1, Len(d) - 1)) + (d[Len(d)] - 48)

(***************************************************************************)
(* ingest/chunker.py                                                       *)
(***************************************************************************)
\* the minimum field width of {:03d}
IdWidth == 3
\* MIN_CHUNK_CHARS
MIN_CHUNK_CHARS == 50

\* "ra-s"
ID_PREFIX == <<114, 97, 45, 115>>
\* "-q"
ID_SEP == <<45, 113>>
\* "Questioner: "
Q_LABEL == <<81, 117, 101, 115, 116, 105, 111, 110, 101, 114, 58, 32>>
\* "\n\nRa: "
A_LABEL == <<10, 10, 82, 97, 58, 32>>

\* format(n, "03d") for n >= 0: zero-padded to at least IdWidth digits
Pad03d(n) ==
    LET d == Digits(n)
    IN  IF Len(d) < IdWidth THEN Zeros(IdWidth - Len(d)) \o d ELSE d

\* an id written without zero padding
MakeChunkIdUnpadded(session, question) ==
    ID_PREFIX \o Digits(session) \o ID_SEP \o Digits(question)
\* an id that leaves the session out
MakeChunkIdQuestionTwice(session, question) ==
    ID_PREFIX \o Pad03d(question) \o ID_SEP \o Pad03d(question)
\* make_chunk_id(session, question)
MakeChunkId(session, question) ==
    ID_PREFIX \o Pad03d(session) \o ID_SEP \o Pad03d(question)

\* build_chunk_text(question, answer)
BuildChunkText(question, answer) ==
    Q_LABEL \o Strip(question) \o A_LABEL \o Strip(answer)

\* chunk_session(session_data): the chunks, and the question numbers it logs as
\* anomalies (very short chunks)
RECURSIVE ChunkPairs(_, _)
ChunkPairs(session_data, pairs) ==
    IF pairs = <<>> THEN [chunks |-> <<>>, anomalies |-> <<>>]
    ELSE
        LET pair     == Head(pairs)
            q_num    == pair.question_number
            question == Strip(pair.question)
            answer   == Strip(pair.answer)
            text     == BuildChunkText(question, answer)
            chunk    == [id              |-> MakeChunkId(session_data.session, q_num),
                         session         |-> session_data.session,
                         book            |-> session_data.book,
                         questioner      |-> session_data.questioner,
                         entity          |-> session_data.entity,
                         date            |-> session_data.date,
                         question_number |-> q_num,
                         source_url      |-> session_data.source_url,
                         text            |-> text]
            rest     == ChunkPairs(session_data, Tail(pairs))
        IN  IF question = <<>> /\ answer = <<>> THEN rest
            ELSE [chunks    |-> <<chunk>> \o rest.chunks,
                  anomalies |-> (IF Len(text) < MIN_CHUNK_CHARS THEN <<q_num>> ELSE <<>>)
                                \o rest.anomalies]

\* a chunk_session that rejects the short chunks instead of only logging them
RECURSIVE ChunkPairsRejectShort(_, _)
ChunkPairsRejectShort(session_data, pairs) ==
    IF pairs = <<>> THEN [chunks |-> <<>>, anomalies |-> <<>>]
    ELSE
        LET one  == ChunkPairs(session_data, <<Head(pairs)>>)
            rest == ChunkPairsRejectShort(session_data, Tail(pairs))
        IN  [chunks    |-> (IF one.anomalies # <<>> THEN <<>> ELSE one.chunks) \o rest.chunks,
             anomalies |-> one.anomalies \o rest.anomalies]
ChunkSessionRejectShort(session_data) ==
    ChunkPairsRejectShort(session_data, session_data.raw_pairs)

\* a chunk_session that numbers the ids by position in its output
RECURSIVE ChunkPairsByPosition(_, _, _)
ChunkPairsByPosition(session_data, pairs, k) ==
    IF pairs = <<>> THEN [chunks |-> <<>>, anomalies |-> <<>>]
    ELSE
        LET one  == ChunkPairs(session_data, <<Head(pairs)>>)
            n    == Len(one.chunks)
            rest == ChunkPairsByPosition(session_data, Tail(pairs), k + n)
        IN  [chunks    |-> [i \in 1..n |->
                               [one.chunks[i] EXCEPT
                                  !.id = MakeChunkId(session_data.session, k + i)]]
                           \o rest.chunks,
             anomalies |-> one.anomalies \o rest.anomalies]
ChunkSessionByPosition(session_data) ==
    ChunkPairsByPosition(session_data, session_data.raw_pairs, 0)

ChunkSession(session_data) == ChunkPairs(session_data, session_data.raw_pairs)

(***************************************************************************)
(* ingest/cleaner.py: session metadata                                     *)
(***************************************************************************)
\* BOOK_MAP / session_to_book(n); None stands for the ValueError
SessionToBook(n) ==
    IF 1 <= n /\ n <= 26 THEN 1
    ELSE IF 27 <= n /\ n <= 50 THEN 2
    ELSE IF 51 <= n /\ n <= 75 THEN 3
    ELSE IF 76 <= n /\ n <= 99 THEN 4
    ELSE IF 100 <= n /\ n <= 106 THEN 5
    ELSE None

\* the session_data dict clean_session builds for session n
SessionData(n, date, pairs) ==
    [session    |-> n,
     book       |-> SessionToBook(n),
     date       |-> date,
     questioner |-> "Don Elkins",
     entity     |-> "Ra",
     source_url |-> <<"https://llresearch.org/channeling/the-law-of-one/session-", n>>,
     raw_pairs  |-> pairs]

(***************************************************************************)
(* ingest/cleaner.py: the textual passes over the flattened document text  *)
(***************************************************************************)
\* str.lower() of one ASCII character (re.IGNORECASE)
Lower(c) == IF 65 <= c /\ c <= 90 THEN c + 32 ELSE c

IsDigit(c) == 48 <= c /\ c <= 57

\* the literal lit stands at position i of s
MatchAt(s, i, lit) ==
    /\ i >= 1 /\ i + Len(lit) - 1 <= Len(s)
    /\ \A k \in 1..Len(lit) : s[i + k - 1] = lit[k]

\* the same, ignoring case; lit is given in lower case
MatchAtCI(s, i, lit) ==
    /\ i >= 1 /\ i + Len(lit) - 1 <= Len(s)
    /\ \A k \in 1..Len(lit) : Lower(s[i + k - 1]) = lit[k]

\* \s* from position i: the first position at or after i that holds no space
RECURSIVE SkipSpaces(_, _)
SkipSpaces(s, i) ==
    IF i <= Len(s) /\ IsSpace(s[i]) THEN SkipSpaces(s, i + 1) ELSE i

\* \d* from position i
RECURSIVE SkipDigits(_, _)
SkipDigits(s, i) ==
    IF i <= Len(s) /\ IsDigit(s[i]) THEN SkipDigits(s, i + 1) ELSE i

\* the least element of a set of positions, 0 for the empty set
First(S) == IF S = {} THEN 0 ELSE CHOOSE i \in S : \A j \in S : i <= j

\* the first position >= i where lit stands (0: nowhere)
Find(s, i, lit) == First({k \in i..Len(s) : MatchAt(s, k, lit)})

FindCI(s, i, lit) == First({k \in i..Len(s) : MatchAtCI(s, k, lit)})

\* "ra:"
RA_COLON_LOWER == <<114, 97, 58>>
\* "Ra:"
RA_COLON == <<82, 97, 58>>
\* "i am ra"
I_AM_RA_LOWER == <<105, 32, 97, 109, 32, 114, 97>>
\* "I am Ra"
I_AM_RA_WORDS == <<73, 32, 97, 109, 32, 82, 97>>
\* "questioner:"
QUESTIONER_LOWER == <<113, 117, 101, 115, 116, 105, 111, 110, 101, 114, 58>>
\* "session"
SESSION_LOWER == <<115, 101, 115, 115, 105, 111, 110>>
\* "\n\n"
PARAGRAPH_BREAK == <<10, 10>>
\* "I am Ra. "
I_AM_RA == <<73, 32, 97, 109, 32, 82, 97, 46, 32>>

\* ra_marker = (?m)^(?:Ra:|RA:)\s*I am Ra[.,]? with re.IGNORECASE, tried at
\* position i: the position after the match, 0 when it does not match there
RaMarkerEnd(s, i) ==
    IF (i = 1 \/ s[i - 1] = 10) /\ MatchAtCI(s, i, RA_COLON_LOWER)
    THEN LET j == SkipSpaces(s, i + Len(RA_COLON_LOWER))
             e == j + Len(I_AM_RA_LOWER)
         IN  IF MatchAtCI(s, j, I_AM_RA_LOWER)
             THEN (IF e <= Len(s) /\ s[e] \in {46, 44} THEN e + 1 ELSE e)
             ELSE 0
    ELSE 0

\* ra_marker.split(text): the text between the matches, from the segment that
\* starts at segStart
RECURSIVE RaSplitFrom(_, _)
RaSplitFrom(s, segStart) ==
    LET i == First({k \in segStart..Len(s) : RaMarkerEnd(s, k) > 0})
    IN  IF i = 0 THEN <<SubSeq(s, segStart, Len(s))>>
        ELSE <<SubSeq(s, segStart, i - 1)>> \o RaSplitFrom(s, RaMarkerEnd(s, i))

RaSplit(s) == RaSplitFrom(s, 1)

\* text.split("\n\n")
RECURSIVE SplitParagraphs(_)
SplitParagraphs(s) ==
    LET i == Find(s, 1, PARAGRAPH_BREAK)
    IN  IF i = 0 THEN <<s>>
        ELSE <<SubSeq(s, 1, i - 1)>> \o SplitParagraphs(Drop(s, i + Len(PARAGRAPH_BREAK)))

\* re.match(r"^Session\s+\d+", s, re.I)
IsSessionHeader(s) ==
    /\ MatchAtCI(s, 1, SESSION_LOWER)
    /\ LET j == SkipSpaces(s, Len(SESSION_LOWER) + 1)
       IN  j > Len(SESSION_LOWER) + 1 /\ j <= Len(s) /\ IsDigit(s[j])

\* _extract_question(text): <<question>>, or <<>> for None
ExtractQuestion(text) ==
    LET qpos   == FindCI(text, 1, QUESTIONER_LOWER)
        \* Questioner:\s*(.+?)$ needs one character after the label
        found  == qpos > 0 /\ qpos + Len(QUESTIONER_LOWER) <= Len(text)
        q_text == Strip(Drop(text, qpos + Len(QUESTIONER_LOWER)))
        rapos  == Find(q_text, 1, RA_COLON)
        \* re.sub(r"\s*Ra:.*$", "", q_text).strip()
        cut    == IF rapos > 0 THEN Strip(SubSeq(q_text, 1, rapos - 1)) ELSE q_text
        paragraphs == SelectSeq([k \in 1..Len(SplitParagraphs(text)) |->
                                    Strip(SplitParagraphs(text)[k])],
                                LAMBDA p : p # <<>>)
        last   == paragraphs[Len(paragraphs)]
    IN  IF found /\ cut # <<>> THEN <<cut>>
        ELSE IF paragraphs # <<>> /\ Len(last) > 20 /\ ~IsSessionHeader(last)
             THEN <<last>>
             ELSE <<>>

\* the loop of _parse_qa_pairs numbering each pair by the position of its
\* segment instead of by a counter of the accepted pairs
RECURSIVE ParseSegmentsByIndex(_, _)
ParseSegmentsByIndex(segments, i) ==
    IF i > Len(segments) THEN <<>>
    ELSE LET question == ExtractQuestion(segments[i - 1])
         IN  IF question = <<>>
             THEN ParseSegmentsByIndex(segments, i + 1)
             ELSE <<[question_number |-> i - 1,
                     question        |-> Strip(question[1]),
                     answer          |-> I_AM_RA \o Strip(segments[i])]>>
                  \o ParseSegmentsByIndex(segments, i + 1)

ParseQaPairsBySegment(text) ==
    LET segments == RaSplit(text)
    IN  IF Len(segments) < 2 THEN <<>> ELSE ParseSegmentsByIndex(segments, 2)

\* the loop of _parse_qa_pairs over segments[1:], from 1-based segment i
RECURSIVE ParseSegments(_, _, _)
ParseSegments(segments, i, question_counter) ==
    IF i > Len(segments) THEN <<>>
    ELSE LET question == ExtractQuestion(segments[i - 1])
         IN  IF question = <<>>
             THEN ParseSegments(segments, i + 1, question_counter)
             ELSE <<[question_number |-> question_counter + 1,
                     question        |-> Strip(question[1]),
                     answer          |-> I_AM_RA \o Strip(segments[i])]>>
                  \o ParseSegments(segments, i + 1, question_counter + 1)

\* _parse_qa_pairs pairing also a question that stands after the last answer,
\* with an empty answer
ParseQaPairsPairDangling(text) ==
    LET segments == RaSplit(text)
        pairs    == ParseSegments(segments, 2, 0)
        question == ExtractQuestion(segments[Len(segments)])
    IN  IF Len(segments) < 2 THEN <<>>
        ELSE IF question = <<>> THEN pairs
        ELSE pairs \o <<[question_number |-> Len(pairs) + 1,
                         question        |-> Strip(question[1]),
                         answer          |-> <<>>]>>

\* _parse_qa_pairs(text, session_n)
ParseQaPairs(text) ==
    LET segments == RaSplit(text)
    IN  IF Len(segments) < 2 THEN <<>> ELSE ParseSegments(segments, 2, 0)

\* \d+\.\d+ tried at position i: the position after the match, 0 for no match
NumberEnd(s, i) ==
    LET j == SkipDigits(s, i)
        k == SkipDigits(s, j + 1)
    IN  IF j > i /\ j <= Len(s) /\ s[j] = 46 /\ k > j + 1 THEN k ELSE 0

\* $ without re.MULTILINE: the end of the string, or just before a final newline
AtEnd(s, i) == i = Len(s) + 1 \/ (i = Len(s) /\ s[i] = 10)

\* (\d+\.\d+)\s+Questioner:\s+ with re.IGNORECASE tried at position i: the
\* position after the match (where group 2 starts), 0 for no match
QuestionHeadEnd(s, i) ==
    LET k  == NumberEnd(s, i)
        k2 == SkipSpaces(s, k)
        k3 == k2 + Len(QUESTIONER_LOWER)
        j  == SkipSpaces(s, k3)
    IN  IF k > 0 /\ k2 > k /\ MatchAtCI(s, k2, QUESTIONER_LOWER) /\ j > k3 THEN j ELSE 0

\* the lookahead (?=\d+\.\d+\s+Ra:|$) with re.IGNORECASE at position i
BeforeNumberedRa(s, i) ==
    \/ AtEnd(s, i)
    \/ LET k == NumberEnd(s, i)
           j == SkipSpaces(s, k)
       IN  k > 0 /\ j > k /\ MatchAtCI(s, j, RA_COLON_LOWER)

\* the lookahead (?=\d+\.\d+\s+|$) at position i
BeforeNumber(s, i) ==
    \/ AtEnd(s, i)
    \/ LET k == NumberEnd(s, i) IN k > 0 /\ SkipSpaces(s, k) > k

\* Ra:\s+I am Ra[.,]?\s+ (case-sensitive) tried at position i: the position
\* after the match (where group 1 starts), 0 for no match
RaHeadEnd(s, i) ==
    LET a == SkipSpaces(s, i + Len(RA_COLON))
        b == a + Len(I_AM_RA_WORDS)
        c == IF b <= Len(s) /\ s[b] \in {46, 44} THEN b + 1 ELSE b
        g == SkipSpaces(s, c)
    IN  IF MatchAt(s, i, RA_COLON) /\ a > i + Len(RA_COLON)
           /\ MatchAt(s, a, I_AM_RA_WORDS) /\ g > c
        THEN g ELSE 0

\* ra_pattern.search(text, pos): the stripped group 1, <<>> when nothing matches
RaAnswerAfter(s, pos) ==
    LET i == First({k \in pos..Len(s) : RaHeadEnd(s, k) > 0})
        g == RaHeadEnd(s, i)
        f == First({k \in g..(Len(s) + 1) : BeforeNumber(s, k)})
    IN  IF i = 0 THEN <<>> ELSE Strip(SubSeq(s, g, f - 1))

\* the loop of _parse_qa_pairs_fallback over pattern.finditer(text), from the
\* match searched at position pos, numbered i
RECURSIVE FallbackFrom(_, _, _)
FallbackFrom(s, pos, i) ==
    LET m == First({k \in pos..Len(s) : QuestionHeadEnd(s, k) > 0})
        j == QuestionHeadEnd(s, m)
        e == First({k \in j..(Len(s) + 1) : BeforeNumberedRa(s, k)})
        answer_text == RaAnswerAfter(s, e)
    IN  IF m = 0 THEN <<>>
        ELSE <<[question_number |-> i,
                question        |-> Strip(SubSeq(s, j, e - 1)),
                answer          |-> IF answer_text # <<>> THEN I_AM_RA \o answer_text
                                    ELSE <<>>]>>
             \o FallbackFrom(s, e, i + 1)

\* _parse_qa_pairs_fallback(text, session_n)
ParseQaPairsFallback(text) == FallbackFrom(text, 1, 1)

\* _normalize_whitespace(text) on ASCII text: runs of 3+ newlines become 2
RECURSIVE CollapseNewlines(_)
CollapseNewlines(s) ==
    LET i == Find(s, 1, <<10, 10, 10>>)
        j == First({k \in (i + 2)..(Len(s) + 1) : k = Len(s) + 1 \/ s[k] # 10})
    IN  IF i = 0 THEN s
        ELSE SubSeq(s, 1, i + 1) \o CollapseNewlines(Drop(s, j))

NormalizeWhitespace(text) == Strip(CollapseNewlines(text))

\* extract_qa_pairs_from_html running the numbered fallback always and joining
\* its pairs to those of the first pass
ExtractQaPairsMerged(text) ==
    LET normalized == NormalizeWhitespace(text)
    IN  ParseQaPairs(normalized) \o ParseQaPairsFallback(normalized)

\* extract_qa_pairs_from_html(html, session_n) on the text of the document:
\* the numbered fallback runs only when the first pass returns no pair
ExtractQaPairs(text) ==
    LET normalized == NormalizeWhitespace(text)
        pairs      == ParseQaPairs(normalized)
    IN  IF pairs = <<>> THEN ParseQaPairsFallback(normalized) ELSE pairs

\* \w of re on ASCII text
IsWord(c) == IsDigit(c) \/ (65 <= c /\ c <= 90) \/ (97 <= c /\ c <= 122) \/ c = 95

\* \b at position i of s
WordBoundary(s, i) ==
    LET before == i > 1 /\ i - 1 <= Len(s) /\ IsWord(s[i - 1])
        after  == i >= 1 /\ i <= Len(s) /\ IsWord(s[i])
    IN  before # after

\* \w+ from position i: the first position at or after i that holds no \w
RECURSIVE SkipWord(_, _)
SkipWord(s, i) ==
    IF i <= Len(s) /\ IsWord(s[i]) THEN SkipWord(s, i + 1) ELSE i

\* \b(\w+ \d{1,2},\s*\d{4})\b tried at position i: the position after the
\* match, 0 for no match
LongDateEnd(s, i) ==
    LET w == SkipWord(s, i)
        d == SkipDigits(s, w + 1)
        y == SkipSpaces(s, d + 1)
        e == y + 4
    IN  IF /\ WordBoundary(s, i) /\ w > i
           /\ w <= Len(s) /\ s[w] = 32
           /\ d - (w + 1) \in {1, 2}
           /\ d <= Len(s) /\ s[d] = 44
           /\ e - 1 <= Len(s) /\ \A k \in y..(e - 1) : IsDigit(s[k])
           /\ WordBoundary(s, e)
        THEN e ELSE 0

\* \b(\d{4}-\d{2}-\d{2})\b tried at position i
IsoDateEnd(s, i) ==
    LET e == i + 10
    IN  IF /\ WordBoundary(s, i) /\ e - 1 <= Len(s)
           /\ \A k \in {0, 1, 2, 3, 5, 6, 8, 9} : IsDigit(s[i + k])
           /\ s[i + 4] = 45 /\ s[i + 7] = 45
           /\ WordBoundary(s, e)
        THEN e ELSE 0

\* "unknown"
UNKNOWN == <<117, 110, 107, 110, 111, 119, 110>>

\* how far into the text extract_date looks
DateWindow == 2000

\* extract_date(soup, session_n) on the text of the document
ExtractDate(text) ==
    LET head == SubSeq(text, 1, IF Len(text) < DateWindow THEN Len(text) ELSE DateWindow)
        a    == First({k \in 1..Len(head) : LongDateEnd(head, k) > 0})
        b    == First({k \in 1..Len(head) : IsoDateEnd(head, k) > 0})
    IN  IF a > 0 THEN SubSeq(head, a, LongDateEnd(head, a) - 1)
        ELSE IF b > 0 THEN SubSeq(head, b, IsoDateEnd(head, b) - 1)
        ELSE UNKNOWN

(***************************************************************************)
(* Texts the bounded inputs are built from.                                *)
(***************************************************************************)
\* "Why?"
Q_WHY == <<87, 104, 121, 63>>
\* "What is the Law of One?"
Q_LAW == <<87, 104, 97, 116, 32, 105, 115, 32, 116, 104, 101, 32, 76, 97, 119, 32,
           111, 102, 32, 79, 110, 101, 63>>
\* "Yes."
A_YES == <<89, 101, 115, 46>>
\* "This is so correct."
A_CORRECT == <<84, 104, 105, 115, 32, 105, 115, 32, 115, 111, 32, 99, 111, 114,
               114, 101, 99, 116, 46>>

(***************************************************************************)
(* SpecId: make_chunk_id applied to two (session, question) pairs.         *)
(***************************************************************************)
\* numbers next to the places where the decimal width changes
IdValues ==
    {n \in 1..MaxIdNum : \E b \in {0, 10, 100, 1000} : n - b \in -2..1}

IdInit ==
    /\ idArgs \in IdValues \X IdValues \X IdValues \X IdValues
    /\ idRes = <<>>
    /\ record = <<>> /\ chunked = <<>> /\ rechunked = <<>>
    /\ document = <<>> /\ extracted = <<>>
    /\ cleaned = <<>> /\ chunkFiles = <<>> /\ chunkSource = <<>> /\ allChunks = <<>>
    /\ store = <<>> /\ lastOp = <<>>

MakeIds ==
    /\ idRes = <<>>
    /\ idRes' = <<MakeChunkId(idArgs[1], idArgs[2]), MakeChunkId(idArgs[3], idArgs[4])>>
    /\ UNCHANGED <<idArgs, record, chunked, rechunked, document, extracted>>
    /\ UNCHANGED pipeVars

IdNext == MakeIds

SpecId == IdInit /\ [][IdNext]_vars

(***************************************************************************)
(* SpecChunk: chunk_session applied twice to one SessionRecord.            *)
(***************************************************************************)
\* question and answer texts as the Normalizer's passes can leave them
QuestionTexts == {<<>>, Q_WHY, Q_LAW}
AnswerTexts == {<<>>, I_AM_RA, I_AM_RA \o A_YES, I_AM_RA \o A_CORRECT}

\* the pair lists of n pairs, numbered 1..n as the Normalizer numbers them
PairLists(n) ==
    {[i \in 1..n |-> [question_number |-> i, question |-> qa[i][1], answer |-> qa[i][2]]] :
        qa \in [1..n -> QuestionTexts \X AnswerTexts]}

RecordSessions == {1, 42}

Records ==
    {SessionData(n, UNKNOWN, pairs) :
        n \in RecordSessions, pairs \in UNION {PairLists(k) : k \in 0..MaxPairs}}

ChunkInit ==
    /\ record \in Records
    /\ chunked = <<>> /\ rechunked = <<>>
    /\ idArgs = <<>> /\ idRes = <<>>
    /\ document = <<>> /\ extracted = <<>>
    /\ cleaned = <<>> /\ chunkFiles = <<>> /\ chunkSource = <<>> /\ allChunks = <<>>
    /\ store = <<>> /\ lastOp = <<>>

ChunkFirst ==
    /\ chunked = <<>>
    /\ chunked' = <<ChunkSession(record)>>
    /\ UNCHANGED <<record, rechunked, idArgs, idRes, document, extracted>>
    /\ UNCHANGED pipeVars

ChunkAgain ==
    /\ chunked # <<>> /\ rechunked = <<>>
    /\ rechunked' = <<ChunkSession(record)>>
    /\ UNCHANGED <<record, chunked, idArgs, idRes, document, extracted>>
    /\ UNCHANGED pipeVars

ChunkNext == ChunkFirst \/ ChunkAgain

SpecChunk == ChunkInit /\ [][ChunkNext]_vars

(***************************************************************************)
(* embeddings/embed.py                                                     *)
(***************************************************************************)
\* EMBED_BATCH_SIZE
EMBED_BATCH_SIZE == 50
\* BATCH of upsert_chunks
UPSERT_BATCH == 200

\* the vector the embedding service returns for a text while its model is in
\* state version
Embedding(text, version) == <<Len(text), version>>

Ids(chunks) == [i \in 1..Len(chunks) |-> chunks[i].id]
Range(seq) == {seq[i] : i \in 1..Len(seq)}

\* a collection.get that reports none of the requested ids
CollectionGetIdsNone(entries, ids) == {}
\* collection.get(ids=...)["ids"]: the requested ids the collection holds
CollectionGetIds(entries, ids) ==
    {id \in Range(ids) : \E e \in BagToSet(entries) : e.id = id}

\* collection.count()
Count(entries) == BagCardinality(entries)

\* an entry whose metadata has lost the date of the chunk
EntryWithoutDate(c, embedding) ==
    [id        |-> c.id,
     document  |-> c.text,
     embedding |-> embedding,
     metadata  |-> [session         |-> c.session,
                    book            |-> c.book,
                    questioner      |-> c.questioner,
                    entity          |-> c.entity,
                    date            |-> UNKNOWN,
                    question_number |-> c.question_number,
                    source_url      |-> c.source_url]]
\* the entry upsert_chunks builds from a chunk and its embedding
Entry(c, embedding) ==
    [id        |-> c.id,
     document  |-> c.text,
     embedding |-> embedding,
     metadata  |-> [session         |-> c.session,
                    book            |-> c.book,
                    questioner      |-> c.questioner,
                    entity          |-> c.entity,
                    date            |-> c.date,
                    question_number |-> c.question_number,
                    source_url      |-> c.source_url]]

\* collection.add of one entry: a second entry under an id already present
AddOne(entries, e) == entries (+) SetToBag({e})
\* collection.upsert of one entry: the entry of that id is replaced
UpsertOne(entries, e) ==
    LET others == {x \in BagToSet(entries) : x.id # e.id}
    IN  [x \in others |-> entries[x]] (+) SetToBag({e})

\* collection.upsert(ids=..., documents=..., embeddings=..., metadatas=...)
RECURSIVE CollectionUpsert(_, _)
CollectionUpsert(entries, batch) ==
    IF batch = <<>> THEN entries
    ELSE CollectionUpsert(UpsertOne(entries, Head(batch)), Tail(batch))

Min(a, b) == IF a < b THEN a ELSE b

\* upsert_chunks(collection, chunks, embeddings): one collection.upsert per
\* slice of UPSERT_BATCH; from 1-based position i
RECURSIVE UpsertChunksFrom(_, _, _, _)
UpsertChunksFrom(entries, chunks, embeddings, i) ==
    IF i > Len(chunks) THEN [entries |-> entries, calls |-> 0]
    ELSE LET last  == Min(i + UPSERT_BATCH - 1, Len(chunks))
             batch == [k \in 1..(last - i + 1) |->
                          Entry(chunks[i + k - 1], embeddings[i + k - 1])]
             rest  == UpsertChunksFrom(CollectionUpsert(entries, batch),
                                       chunks, embeddings, last + 1)
         IN  [entries |-> rest.entries, calls |-> rest.calls + 1]

UpsertChunks(entries, chunks, embeddings) ==
    UpsertChunksFrom(entries, chunks, embeddings, 1)

\* an embed_texts that swallows the exception of a failing call and goes on
EmbedTextsBatchSwallow(texts, version, failAt) ==
    [ok         |-> TRUE,
     calls      |-> Len(texts),
     batches    |-> Cardinality({i \in 1..Len(texts) : (i - 1) % EMBED_BATCH_SIZE = 0}),
     embeddings |-> [i \in 1..Len(texts) |->
                        IF i = failAt THEN <<>> ELSE Embedding(texts[i], version)]]

\* embed_texts_batch(texts, model, batch_size): embed_texts on slices of
\* EMBED_BATCH_SIZE, one client.embeddings call per text.  The failAt-th call
\* of the run raises (0: none does); calls counts the calls made.
EmbedTextsBatch(texts, version, failAt) ==
    LET failed == failAt >= 1 /\ failAt <= Len(texts)
        batches == {i \in 1..Len(texts) : (i - 1) % EMBED_BATCH_SIZE = 0}
    IN  [ok         |-> ~failed,
         calls      |-> IF failed THEN failAt ELSE Len(texts),
         batches    |-> IF failed THEN Cardinality({i \in batches : i <= failAt})
                        ELSE Cardinality(batches),
         embeddings |-> IF failed THEN <<>>
                        ELSE [i \in 1..Len(texts) |-> Embedding(texts[i], version)]]

\* step 4 of embed_and_store: the chunks to embed
NewChunksIgnoringStore(entries, chunks, force) == chunks
\* a step 4 that also takes the chunks whose stored text is not the chunk's
NewChunksRefreshChanged(entries, chunks, force) ==
    SelectSeq(chunks, LAMBDA c : force \/ \A e \in BagToSet(entries) :
                                            e.id = c.id => e.document # c.text)
NewChunksIgnoringForce(entries, chunks, force) ==
    SelectSeq(chunks, LAMBDA c : c.id \notin CollectionGetIds(entries, Ids(chunks)))
NewChunks(entries, chunks, force) ==
    IF ~force
    THEN LET existing_ids == CollectionGetIds(entries, Ids(chunks))
         IN  SelectSeq(chunks, LAMBDA c : c.id \notin existing_ids)
    ELSE chunks

\* what a run of embed_and_store(force) does, given the state of the embedding
\* service: ollama in {"up", "down", "nomodel"}, the call that fails, and the
\* state of the model.  Returns the store after the run and the record of the run.
EmbedAndStoreRun(force, ollama, failAt, version) ==
    LET blank == [op |-> "embed_and_store",
                  force |-> force, ollama |-> ollama, failAt |-> failAt,
                  outcome |-> "nofile", chunks |-> <<>>,
                  present |-> {}, contacted |-> FALSE, opened |-> FALSE,
                  embedCalls |-> 0, embedded |-> <<>>,
                  upsertCalls |-> 0, upserted |-> <<>>,
                  changed |-> FALSE, countBefore |-> 0, countAfter |-> 0,
                  rerun |-> FALSE]
        chunks     == allChunks[1]
        rerun      == /\ lastOp.op = "embed_and_store"
                      /\ lastOp.outcome \in {"ok", "uptodate"}
                      /\ lastOp.chunks = chunks
        before     == IF store = <<>> THEN EmptyBag ELSE store[1]
        read       == [blank EXCEPT !.chunks = chunks, !.rerun = rerun,
                                    !.present = {id \in Range(Ids(chunks)) :
                                                    \E e \in BagToSet(before) : e.id = id},
                                    !.countBefore = Count(before),
                                    !.countAfter = Count(before)]
        new_chunks == NewChunks(before, chunks, force)
        texts      == [i \in 1..Len(new_chunks) |-> new_chunks[i].text]
        embedded   == EmbedTextsBatch(texts, version, failAt)
        upserted   == UpsertChunks(before, new_chunks, embedded.embeddings)
        opened     == [read EXCEPT !.contacted = TRUE, !.opened = TRUE]
    IN  \* 1. load chunks
        IF allChunks = <<>> THEN [store |-> store, run |-> blank]
        ELSE IF chunks = <<>> THEN
            [store |-> store, run |-> [read EXCEPT !.outcome = "nochunks"]]
        \* 2. check_ollama
        ELSE IF ollama # "up" THEN
            [store |-> store,
             run   |-> [read EXCEPT !.outcome = "unreachable", !.contacted = TRUE]]
        \* 3. get_collection creates the collection when there is none
        \* 4. nothing to embed
        ELSE IF new_chunks = <<>> THEN
            [store |-> <<before>>, run |-> [opened EXCEPT !.outcome = "uptodate"]]
        \* 5. an embedding call raises: nothing is upserted
        ELSE IF ~embedded.ok THEN
            [store |-> <<before>>,
             run   |-> [opened EXCEPT !.outcome = "embedfail",
                                      !.embedCalls = embedded.calls,
                                      !.embedded = SubSeq(Ids(new_chunks), 1, embedded.calls)]]
        \* 6. upsert
        ELSE
            [store |-> <<upserted.entries>>,
             run   |-> [opened EXCEPT !.outcome = "ok",
                                      !.embedCalls = embedded.calls,
                                      !.embedded = Ids(new_chunks),
                                      !.upsertCalls = upserted.calls,
                                      !.upserted = Ids(new_chunks),
                                      !.countAfter = Count(upserted.entries)]]

(***************************************************************************)
(* Spec: the offline pipeline, cleaner -> chunker -> embed, run in any     *)
(* order and any number of times over a small corpus.                      *)
(***************************************************************************)
\* the document text
\*   Session 1, January 15, 1981
\*   
\*   Questioner: What is the Law of One?
\*   Ra: I am Ra. Yes.
\*   
\*   Questioner: Why?
\*   Ra: I am Ra. This is so correct.
DOC_TWO ==
    <<83, 101, 115, 115, 105, 111, 110, 32, 49, 44, 32, 74, 97, 110, 117, 97,
      114, 121, 32, 49, 53, 44, 32, 49, 57, 56, 49, 10, 10, 81, 117, 101,
      115, 116, 105, 111, 110, 101, 114, 58, 32, 87, 104, 97, 116, 32, 105,
      115, 32, 116, 104, 101, 32, 76, 97, 119, 32, 111, 102, 32, 79, 110,
      101, 63, 10, 82, 97, 58, 32, 73, 32, 97, 109, 32, 82, 97, 46, 32, 89,
      101, 115, 46, 10, 10, 81, 117, 101, 115, 116, 105, 111, 110, 101, 114,
      58, 32, 87, 104, 121, 63, 10, 82, 97, 58, 32, 73, 32, 97, 109, 32, 82,
      97, 46, 32, 84, 104, 105, 115, 32, 105, 115, 32, 115, 111, 32, 99, 111,
      114, 114, 101, 99, 116, 46>>

\* the document text
\*   Session 3 intro
DOC_NONE ==
    <<83, 101, 115, 115, 105, 111, 110, 32, 51, 32, 105, 110, 116, 114, 111>>

\* the document text
\*   1.1 Questioner: Why? 1.1 Ra: I am Ra. Yes. 1.2 Questioner: 
DOC_NUMBERED ==
    <<49, 46, 49, 32, 81, 117, 101, 115, 116, 105, 111, 110, 101, 114, 58,
      32, 87, 104, 121, 63, 32, 49, 46, 49, 32, 82, 97, 58, 32, 73, 32, 97,
      109, 32, 82, 97, 46, 32, 89, 101, 115, 46, 32, 49, 46, 50, 32, 81, 117,
      101, 115, 116, 105, 111, 110, 101, 114, 58, 32>>


Sessions == {1, 27}

\* what data/raw/session-NNN.html may hold when the cleaner runs: <<text>>, or
\* <<>> when the file is missing
RawDocs(n) ==
    IF n = 1 THEN {<<>>, <<DOC_NUMBERED>>, <<DOC_TWO>>, <<DOC_NONE>>}
    ELSE {<<>>, <<DOC_NUMBERED>>}

\* the session_data clean_session builds from a raw text
CleanRecord(n, text) == SessionData(n, ExtractDate(text), ExtractQaPairs(text))

\* CleanRecord of every raw text of the corpus, computed once
CleanRecords ==
    [n \in Sessions |-> [raw \in RawDocs(n) \ {<<>>} |-> CleanRecord(n, raw[1])]]

\* clean_session(n, force) with the raw file holding raw
CleanSession(n, raw, force) ==
    /\ ~(cleaned[n] # <<>> /\ ~force)
    /\ raw # <<>>
    /\ cleaned' = [cleaned EXCEPT ![n] = <<CleanRecords[n][raw]>>]
    /\ lastOp' = [op |-> "clean_session"]
    /\ UNCHANGED <<chunkFiles, chunkSource, allChunks, store>>
    /\ UNCHANGED pureVars

\* the session numbers in the sorted order of the file names session-NNN.json
SortedSessions(S) ==
    CHOOSE seq \in [1..Cardinality(S) -> S] :
        /\ Range(seq) = S
        /\ \A i, j \in 1..Cardinality(S) : i < j => seq[i] < seq[j]

\* a loop of chunk_all that does not look for the cached chunk file
RECURSIVE ChunkFilesFromNoCache(_, _, _, _)
ChunkFilesFromNoCache(files, order, k, force) ==
    IF k > Len(order) THEN [files |-> files, all_chunks |-> <<>>, written |-> {}]
    ELSE LET n      == order[k]
             chunks == ChunkSession(cleaned[n][1]).chunks
             rest   == ChunkFilesFromNoCache([files EXCEPT ![n] = <<chunks>>],
                                             order, k + 1, force)
         IN  [files      |-> rest.files,
              all_chunks |-> chunks \o rest.all_chunks,
              written    |-> {n} \cup rest.written]

\* the loop of chunk_all over the cleaned files, from the k-th one: the chunk
\* files after it, the list it collects, the sessions whose file it wrote
RECURSIVE ChunkFilesFrom(_, _, _, _)
ChunkFilesFrom(files, order, k, force) ==
    IF k > Len(order) THEN [files |-> files, all_chunks |-> <<>>, written |-> {}]
    ELSE LET n      == order[k]
             cached == files[n] # <<>> /\ ~force
             chunks == IF cached THEN files[n][1] ELSE ChunkSession(cleaned[n][1]).chunks
             rest   == ChunkFilesFrom([files EXCEPT ![n] = <<chunks>>], order, k + 1, force)
         IN  [files      |-> rest.files,
              all_chunks |-> chunks \o rest.all_chunks,
              written    |-> (IF cached THEN {} ELSE {n}) \cup rest.written]

\* chunk_all(force)
ChunkAll(force) ==
    LET cleaned_files == {n \in Sessions : cleaned[n] # <<>>}
        done == ChunkFilesFrom(chunkFiles, SortedSessions(cleaned_files), 1, force)
        run  == [op        |-> "chunk_all",
                 force     |-> force,
                 cached    |-> {n \in cleaned_files : chunkFiles[n] # <<>>},
                 unchanged |-> {n \in cleaned_files :
                                   chunkFiles[n] # <<>> /\ chunkSource[n] = cleaned[n]},
                 written   |-> {},
                 kept      |-> {n \in Sessions : chunkFiles[n] # <<>>}]
    IN  /\ IF cleaned_files = {}
           THEN /\ UNCHANGED <<chunkFiles, chunkSource, allChunks>>
                /\ lastOp' = run
           ELSE /\ chunkFiles' = done.files
                /\ chunkSource' = [n \in Sessions |->
                                      IF n \in done.written THEN cleaned[n]
                                      ELSE chunkSource[n]]
                /\ allChunks' = <<done.all_chunks>>
                /\ lastOp' = [run EXCEPT
                                 !.written  = done.written,
                                 !.kept     = {n \in Sessions :
                                                  /\ chunkFiles[n] # <<>>
                                                  /\ done.files[n] = chunkFiles[n]}]
        /\ UNCHANGED <<cleaned, store>>
        /\ UNCHANGED pureVars

\* embed_and_store(force)
EmbedAndStore(force, ollama, failAt, version) ==
    LET done == EmbedAndStoreRun(force, ollama, failAt, version)
        EntriesOf(st) == IF st = <<>> THEN EmptyBag ELSE st[1]
    IN  /\ store' = done.store
        /\ lastOp' = [done.run EXCEPT !.changed = (EntriesOf(done.store) # EntriesOf(store))]
        /\ UNCHANGED <<cleaned, chunkFiles, chunkSource, allChunks>>
        /\ UNCHANGED pureVars

Init ==
    /\ cleaned = [n \in Sessions |-> <<>>]
    /\ chunkFiles = [n \in Sessions |-> <<>>]
    /\ chunkSource = [n \in Sessions |-> <<>>]
    /\ allChunks = <<>>
    /\ store = <<>>
    /\ lastOp = [op |-> "none"]
    /\ idArgs = <<>> /\ idRes = <<>>
    /\ record = <<>> /\ chunked = <<>> /\ rechunked = <<>>
    /\ document = <<>> /\ extracted = <<>>

Next ==
    \/ \E n \in Sessions, force \in BOOLEAN :
          \E raw \in RawDocs(n) : CleanSession(n, raw, force)
    \/ \E force \in BOOLEAN : ChunkAll(force)
    \/ \E force \in BOOLEAN, ollama \in {"up", "down", "nomodel"} :
          \E failAt \in (IF ollama = "up" THEN 0..MaxFailAt ELSE {0}),
             version \in (IF ollama = "up" THEN 1..MaxEmbedVersions ELSE {1}) :
             EmbedAndStore(force, ollama, failAt, version)

Spec == Init /\ [][Next]_vars

(***************************************************************************)
(* Properties of the pipeline (Spec).                                      *)
(***************************************************************************)
Entries == IF store = <<>> THEN EmptyBag ELSE store[1]
StoredIds == {e.id : e \in BagToSet(Entries)}
IsEmbedRun == lastOp.op = "embed_and_store"
Completed == {"ok", "uptodate"}

\* the ids embed_and_store is to embed in the last run, from what that run read
ExpectedNewIds ==
    IF lastOp.force THEN Ids(lastOp.chunks)
    ELSE SelectSeq(Ids(lastOp.chunks), LAMBDA id : id \notin lastOp.present)

\* C1: after any sequence of runs the store holds at most one entry per chunk
\* id, and a run that upserts an id already present overwrites it: the count
\* grows only by the ids that were not there.
C1_OneEntryPerId ==
    /\ \A e \in BagToSet(Entries) : CopiesIn(e, Entries) = 1
    /\ \A e1, e2 \in BagToSet(Entries) : e1.id = e2.id => e1 = e2
    /\ (IsEmbedRun /\ lastOp.outcome = "ok") =>
          lastOp.countAfter =
              lastOp.countBefore + Cardinality(Range(lastOp.upserted) \ lastOp.present)

\* a forced run has overwritten an entry that was present with another vector
C1_Witness ==
    /\ IsEmbedRun /\ lastOp.force /\ lastOp.outcome = "ok"
    /\ Range(lastOp.upserted) \cap lastOp.present # {}
    /\ lastOp.changed
    /\ lastOp.countAfter = lastOp.countBefore

\* C2 as stated: after a completed indexing run every stored id is the id of
\* exactly one chunk of the chunk set that run read.
C2_StoredIdsHaveChunk ==
    (IsEmbedRun /\ lastOp.outcome \in Completed) =>
        \A id \in StoredIds :
            Cardinality({i \in 1..Len(lastOp.chunks) : lastOp.chunks[i].id = id}) = 1

\* C3: a run without force on the chunk set that the run before it completed on
\* changes nothing in the store: same count, same vectors, texts and metadata;
\* with the service up it finds every chunk present and ends up to date.
C3_IdempotentReindex ==
    (IsEmbedRun /\ lastOp.rerun /\ ~lastOp.force) =>
        /\ ~lastOp.changed
        /\ lastOp.countAfter = lastOp.countBefore
        /\ lastOp.present = Range(Ids(lastOp.chunks))
        /\ lastOp.ollama = "up" => lastOp.outcome = "uptodate"

\* the second of two runs on a chunk set of three chunks, without force
C3_Witness ==
    /\ IsEmbedRun /\ lastOp.rerun /\ ~lastOp.force /\ lastOp.ollama = "up"
    /\ Len(lastOp.chunks) = 3
    /\ lastOp.countAfter = 3

\* C4: a run without force on a chunk set whose ids are all in the store makes
\* no embedding call and no upsert.
C4_NoCallsWhenAllPresent ==
    (IsEmbedRun /\ ~lastOp.force /\ lastOp.outcome # "nofile"
        /\ Range(Ids(lastOp.chunks)) \subseteq lastOp.present) =>
        /\ lastOp.embedCalls = 0 /\ lastOp.embedded = <<>>
        /\ lastOp.upsertCalls = 0 /\ lastOp.upserted = <<>>

\* a run without force, the service up, on two or more chunks all present
C4_Witness ==
    /\ IsEmbedRun /\ ~lastOp.force /\ lastOp.ollama = "up"
    /\ Len(lastOp.chunks) >= 2
    /\ Range(Ids(lastOp.chunks)) \subseteq lastOp.present
    /\ lastOp.outcome = "uptodate"

\* C5: a run that completes embeds and upserts, one embedding call each and in
\* order, exactly the chunks whose id the store did not hold (without force),
\* or every chunk read (with force); each is then stored with its text.
C5_EmbedsExactlyNew ==
    (IsEmbedRun /\ lastOp.outcome \in Completed) =>
        /\ lastOp.embedded = ExpectedNewIds
        /\ lastOp.upserted = ExpectedNewIds
        /\ lastOp.embedCalls = Len(ExpectedNewIds)
        /\ \A i \in 1..Len(lastOp.chunks) :
              lastOp.chunks[i].id \in Range(ExpectedNewIds) =>
                  \E e \in BagToSet(Entries) :
                      /\ e.id = lastOp.chunks[i].id
                      /\ e.document = lastOp.chunks[i].text
                      /\ e.metadata.question_number = lastOp.chunks[i].question_number

\* a run without force on a chunk set partly present: some ids skipped, others
\* embedded and upserted
C5_Witness ==
    /\ IsEmbedRun /\ ~lastOp.force /\ lastOp.outcome = "ok"
    /\ lastOp.present # {}
    /\ lastOp.upserted # <<>>
    /\ Len(lastOp.upserted) < Len(lastOp.chunks)

\* C6: a run that finds no chunks file contacts neither the embedding service
\* nor the store; a run in which the service is unreachable, or in which one of
\* the embedding calls it needs fails, upserts nothing and leaves the stored
\* entries as they were.
C6_FailuresAreFatal ==
    IsEmbedRun =>
        /\ lastOp.outcome = "nofile" =>
              /\ ~lastOp.contacted /\ ~lastOp.opened
              /\ lastOp.embedCalls = 0 /\ lastOp.upsertCalls = 0
              /\ ~lastOp.changed
        /\ (/\ lastOp.outcome \notin {"nofile", "nochunks"}
            /\ \/ lastOp.ollama # "up"
               \/ lastOp.failAt \in 1..Len(ExpectedNewIds)) =>
              /\ lastOp.outcome \in {"unreachable", "embedfail"}
              /\ lastOp.upsertCalls = 0 /\ lastOp.upserted = <<>>
              /\ ~lastOp.changed
              /\ lastOp.countAfter = lastOp.countBefore

\* the second embedding call of a run failed, after one that succeeded, on a
\* store that already held entries
C6_Witness ==
    /\ IsEmbedRun /\ lastOp.outcome = "embedfail"
    /\ lastOp.embedCalls = 2
    /\ lastOp.countBefore >= 1

\* C7: the ids of the chunks of all_chunks.json, as chunk_all builds it from
\* the cleaned sessions and the cached chunk files, are pairwise distinct.
C7_ChunkIdsDistinct ==
    allChunks # <<>> =>
        \A i, j \in 1..Len(allChunks[1]) :
            i # j => allChunks[1][i].id # allChunks[1][j].id

\* a corpus of two sessions, one of them with two chunks
C7_Witness ==
    /\ allChunks # <<>>
    /\ Len(allChunks[1]) = 3
    /\ {allChunks[1][i].session : i \in 1..3} = Sessions
    /\ {allChunks[1][i].question_number : i \in 1..3} = {1, 2}

(***************************************************************************)
(* Properties of make_chunk_id (SpecId).                                   *)
(***************************************************************************)
\* (s1, q1) precedes (s2, q2) by session, then by question number
PairLess(s1, q1, s2, q2) == s1 < s2 \/ (s1 = s2 /\ q1 < q2)

\* the largest number {:03d} writes in exactly IdWidth digits
FixedWidthMax == 10 ^ IdWidth - 1

IdsOrderedAsPairs ==
    StrLess(idRes[1], idRes[2]) <=> PairLess(idArgs[1], idArgs[2], idArgs[3], idArgs[4])

\* C9 as stated: for ANY two (session, question) pairs, the ids sort as strings
\* exactly as the pairs sort by session, then question number.
C9_LexOrderAnyPair == idRes # <<>> => IdsOrderedAsPairs

\* C9 amended: for any two (session, question) pairs whose four numbers are all
\* at most 999 (the numbers {:03d} writes in exactly three digits), the ids sort
\* as strings exactly as the pairs sort by session, then question number.
C9_LexOrderFixedWidth ==
    (idRes # <<>> /\ \A i \in 1..4 : idArgs[i] <= FixedWidthMax) => IdsOrderedAsPairs

\* two ids of one session whose question numbers have different decimal widths
\* within three digits, ordered as the numbers are
C9_Witness ==
    /\ idRes # <<>>
    /\ idArgs = <<9, 99, 9, 100>>
    /\ StrLess(idRes[1], idRes[2])

(***************************************************************************)
(* Properties of chunk_session (SpecChunk).                                *)
(***************************************************************************)
\* d is n written by {:03d}: decimal digits of n, zero-padded to IdWidth, and
\* with no leading zero beyond that width
IsPadded(d, n) ==
    /\ Len(d) >= IdWidth
    /\ \A i \in 1..Len(d) : IsDigit(d[i])
    /\ DigitsValue(d) = n
    /\ Len(d) > IdWidth => d[1] # 48

\* id reads "ra-s" <session> "-q" <question>
IdHasFormat(id, s, q) ==
    \E i \in 5..(Len(id) - 1) :
        /\ SubSeq(id, 1, 4) = ID_PREFIX
        /\ SubSeq(id, i, i + 1) = ID_SEP
        /\ IsPadded(SubSeq(id, 5, i - 1), s)
        /\ IsPadded(SubSeq(id, i + 2, Len(id)), q)

\* C8: two runs of chunk_session on one SessionRecord return identical chunk
\* lists (ids, text, metadata, order), and every chunk's id is
\* ra-s{session:03d}-q{question_number:03d} of the record's session and the
\* chunk's own question number, whatever the other fields and its position.
C8_Deterministic ==
    rechunked # <<>> =>
        /\ rechunked = chunked
        /\ \A i \in 1..Len(chunked[1].chunks) :
              LET c == chunked[1].chunks[i]
              IN  /\ c.session = record.session
                  /\ \E p \in 1..Len(record.raw_pairs) :
                        /\ record.raw_pairs[p].question_number = c.question_number
                        /\ c.text = BuildChunkText(record.raw_pairs[p].question,
                                                   record.raw_pairs[p].answer)
                  /\ IdHasFormat(c.id, record.session, c.question_number)

\* both runs done on a record whose first pair is skipped: the only chunk is
\* question 2, first in the output
C8_Witness ==
    /\ rechunked # <<>>
    /\ Len(record.raw_pairs) = 2
    /\ Len(chunked[1].chunks) = 1
    /\ chunked[1].chunks[1].question_number = 2

\* the pairs chunk_session keeps: all but those with empty question and answer
KeptPairs(pairs) ==
    SelectSeq(pairs, LAMBDA p : ~(p.question = <<>> /\ p.answer = <<>>))

QNumbers(seq) == [i \in 1..Len(seq) |-> seq[i].question_number]

\* C10: chunk_session returns one chunk per QA pair, in the pairs' order,
\* leaving out only the pairs whose question and answer are both empty; a pair
\* whose text is under MIN_CHUNK_CHARS is logged as an anomaly and still has
\* its chunk.
C10_OneChunkPerPair ==
    chunked # <<>> =>
        LET res  == chunked[1]
            kept == KeptPairs(record.raw_pairs)
        IN  /\ QNumbers(res.chunks) = QNumbers(kept)
            /\ \A i \in 1..Len(kept) :
                  res.chunks[i].text = BuildChunkText(kept[i].question, kept[i].answer)
            /\ res.anomalies =
                  QNumbers(SelectSeq(res.chunks, LAMBDA c : Len(c.text) < MIN_CHUNK_CHARS))
            /\ res.anomalies =
                  QNumbers(SelectSeq(kept,
                      LAMBDA p : Len(Strip(p.question)) + Len(Strip(p.answer))
                                     + Len(Q_LABEL) + Len(A_LABEL) < MIN_CHUNK_CHARS))

\* a record with an empty pair (skipped), then a short pair: flagged and chunked
C10_Witness ==
    /\ chunked # <<>>
    /\ Len(record.raw_pairs) = 2
    /\ record.raw_pairs[1].question = <<>> /\ record.raw_pairs[1].answer = <<>>
    /\ chunked[1].anomalies = <<2>>
    /\ QNumbers(chunked[1].chunks) = <<2>>
    /\ Len(chunked[1].chunks[1].text) = MIN_CHUNK_CHARS - 1

(***************************************************************************)
(* Properties of the chunk texts the pipeline produces (Spec).             *)
(***************************************************************************)
\* the number of places of s where lit occurs
Occurrences(s, lit) == Cardinality({i \in 1..Len(s) : MatchAt(s, i, lit)})

\* the question label "Questioner:" and the answer label "Ra:", as texts
QUESTION_MARK == SubSeq(Q_LABEL, 1, Len(Q_LABEL) - 1)
ANSWER_MARK == SubSeq(A_LABEL, 3, Len(A_LABEL) - 1)

\* C11 as stated: every chunk of all_chunks.json has a text with exactly one
\* question segment (one "Questioner:" label) and exactly one answer segment
\* (one "Ra:" label), and the text is not empty.
C11_OneQuestionOneAnswer ==
    allChunks # <<>> =>
        \A i \in 1..Len(allChunks[1]) :
            LET text == allChunks[1][i].text
            IN  /\ text # <<>>
                /\ Occurrences(text, QUESTION_MARK) = 1
                /\ Occurrences(text, ANSWER_MARK) = 1

(***************************************************************************)
(* Properties of the chunk cache of chunk_all (Spec).                      *)
(***************************************************************************)
IsChunkRun == lastOp.op = "chunk_all"
CleanedSessions == {n \in Sessions : cleaned[n] # <<>>}

\* the chunk lists of the files of the sessions of order, one after the other
RECURSIVE ConcatFiles(_, _)
ConcatFiles(files, order) ==
    IF order = <<>> THEN <<>>
    ELSE files[Head(order)][1] \o ConcatFiles(files, Tail(order))

\* C12: chunk_all without force writes no chunk file that existed, leaves it
\* as it was and returns its chunks (also when the SessionRecord has changed
\* since); chunk_all with force writes every file, and a file whose
\* SessionRecord is the one it was written from comes out identical.
C12_CachedUnlessForced ==
    IsChunkRun =>
        /\ ~lastOp.force =>
              /\ lastOp.written \cap lastOp.cached = {}
              /\ lastOp.cached \subseteq lastOp.kept
              /\ lastOp.written = CleanedSessions \ lastOp.cached
        /\ lastOp.force =>
              /\ lastOp.written = CleanedSessions
              /\ lastOp.unchanged \subseteq lastOp.kept
        /\ CleanedSessions # {} =>
              /\ allChunks = <<ConcatFiles(chunkFiles, SortedSessions(CleanedSessions))>>
              /\ \A n \in CleanedSessions : chunkSource[n] # <<>>
              /\ \A n \in lastOp.written :
                    /\ chunkSource[n] = cleaned[n]
                    /\ chunkFiles[n] = <<ChunkSession(cleaned[n][1]).chunks>>

\* a run without force that kept the chunk file of a session whose record has
\* changed since it was written, and wrote the file of another session
C12_Witness ==
    /\ IsChunkRun /\ ~lastOp.force
    /\ lastOp.cached \ lastOp.unchanged # {}
    /\ lastOp.written # {}
    /\ \E n \in lastOp.cached : chunkSource[n] # cleaned[n] /\ n \in lastOp.kept

(***************************************************************************)
(* agent/retriever.py                                                      *)
(***************************************************************************)
\* decimal places kept by round(dist, 4)
RoundDigits == 4
\* distances are written in units of 10^-DistanceDigits
DistanceDigits == 5
\* largest top_k given to the searches
MaxTopK == 3

Abs(x) == IF x < 0 THEN 0 - x ELSE x

\* the cosine distance the collection computes between the query vector and
\* an entry's vector, in units of 10^-DistanceDigits, between 0 and 2: it
\* grows with the difference of the texts and is large between vectors of
\* two different states of the embedding model
Distance(q, e) ==
    Min(2 * 10 ^ DistanceDigits,
        5 * Abs(q[1] - e[1]) + (IF q[2] = e[2] THEN 0 ELSE 10 ^ DistanceDigits))

\* round(dist, 4): to the nearest multiple of 10^-4, a tie to the even one
Round4(d) ==
    LET unit == 10 ^ (DistanceDigits - RoundDigits)
        q    == d \div unit
        r    == d % unit
    IN  IF 2 * r < unit THEN unit * q
        ELSE IF 2 * r > unit THEN unit * (q + 1)
        ELSE IF q % 2 = 0 THEN unit * q ELSE unit * (q + 1)

\* "1981-01-01"
DATE_1981_START == <<49, 57, 56, 49, 45, 48, 49, 45, 48, 49>>
\* "1982-12-31"
DATE_1982_END == <<49, 57, 56, 50, 45, 49, 50, 45, 51, 49>>
\* "January 15, 1981"
DATE_LONG == <<74, 97, 110, 117, 97, 114, 121, 32, 49, 53, 44, 32, 49, 57, 56, 49>>
\* "x"
QUERY_X == <<120>>

\* the filter arguments of hybrid_search: <<>> for None, <<value>> otherwise
NoFilters ==
    [session |-> <<>>, book |-> <<>>, entity |-> <<>>, date_from |-> <<>>, date_to |-> <<>>]

\* hybrid_search: where_conditions, in the order they are appended
WhereConditions(f) ==
    (IF f.session # <<>>
        THEN <<[field |-> "session", op |-> "$eq", value |-> f.session[1]]>> ELSE <<>>)
    \o (IF f.book # <<>>
        THEN <<[field |-> "book", op |-> "$eq", value |-> f.book[1]]>> ELSE <<>>)
    \o (IF f.entity # <<>>
        THEN <<[field |-> "entity", op |-> "$eq", value |-> f.entity[1]]>> ELSE <<>>)
    \o (IF f.date_from # <<>>
        THEN <<[field |-> "date", op |-> "$gte", value |-> f.date_from[1]]>> ELSE <<>>)
    \o (IF f.date_to # <<>>
        THEN <<[field |-> "date", op |-> "$lte", value |-> f.date_to[1]]>> ELSE <<>>)

\* hybrid_search: the where clause; <<>> for None, <<condition>> for one
\* condition, <<["$and" |-> conditions]>> for several
Where(f) ==
    LET where_conditions == WhereConditions(f)
    IN  IF Len(where_conditions) = 1 THEN <<where_conditions[1]>>
        ELSE IF Len(where_conditions) > 1 THEN <<[and |-> where_conditions]>>
        ELSE <<>>

\* the conditions of a where clause
ConditionsOf(where) ==
    IF where = <<>> THEN <<>>
    ELSE IF "and" \in DOMAIN where[1] THEN where[1].and
    ELSE <<where[1]>>

\* a where clause of which one condition is enough
MatchesWhereSome(metadata, where) ==
    \/ ConditionsOf(where) = <<>>
    \/ \E i \in 1..Len(ConditionsOf(where)) :
          LET c == ConditionsOf(where)[i]
          IN  IF c.op = "$eq" THEN metadata[c.field] = c.value
              ELSE IF c.op = "$gte" THEN ~StrLess(metadata[c.field], c.value)
              ELSE ~StrLess(c.value, metadata[c.field])
\* the collection's test of an entry's metadata against a where clause: $eq is
\* equality, $gte and $lte on texts are the order of str, $and is conjunction
MatchesWhere(metadata, where) ==
    \A i \in 1..Len(ConditionsOf(where)) :
        LET c == ConditionsOf(where)[i]
        IN  IF c.op = "$eq" THEN metadata[c.field] = c.value
            ELSE IF c.op = "$gte" THEN ~StrLess(metadata[c.field], c.value)
            ELSE ~StrLess(c.value, metadata[c.field])

\* a where clause holds a range condition ($gte, $lte) on a text
HasTextRange(where) ==
    \E i \in 1..Len(ConditionsOf(where)) : ConditionsOf(where)[i].op \in {"$gte", "$lte"}

\* the entries of the collection a where clause selects
Matching(entries, where) ==
    {e \in BagToSet(entries) : MatchesWhere(e.metadata, where)}

\* the orders in which the entries of S come out (each entry once)
Orders(S) ==
    {seq \in [1..Cardinality(S) -> S] :
        \A i, j \in 1..Cardinality(S) : i # j => seq[i] # seq[j]}

\* orders in which collection.query may rank: any order
QueryOrdersUnranked(entries, where, query_embedding) == Orders(Matching(entries, where))
\* the orders in which collection.query ranks the selected entries: nearest
\* first, entries at equal distance in any order
QueryOrders(entries, where, query_embedding) ==
    {seq \in Orders(Matching(entries, where)) :
        \A i \in 1..(Len(seq) - 1) :
            Distance(query_embedding, seq[i].embedding)
                <= Distance(query_embedding, seq[i + 1].embedding)}

\* a collection.query that returns every ranked entry
CollectionQueryAll(ranked, query_embedding, n_results) ==
    [i \in 1..Len(ranked) |->
        [id |-> ranked[i].id, document |-> ranked[i].document,
         metadata |-> ranked[i].metadata,
         distance |-> Distance(query_embedding, ranked[i].embedding)]]
\* collection.query(query_embeddings, n_results, where, include): the first
\* n_results of the ranked entries, each with its distance
CollectionQuery(ranked, query_embedding, n_results) ==
    [i \in 1..Min(n_results, Len(ranked)) |->
        [id |-> ranked[i].id, document |-> ranked[i].document,
         metadata |-> ranked[i].metadata,
         distance |-> Distance(query_embedding, ranked[i].embedding)]]

\* the result dict of the retriever; distance is <<>> for None
Result(id, text, meta, distance) ==
    [id              |-> id,
     session         |-> meta.session,
     book            |-> meta.book,
     date            |-> meta.date,
     question_number |-> meta.question_number,
     source_url      |-> meta.source_url,
     questioner      |-> meta.questioner,
     entity          |-> meta.entity,
     text            |-> text,
     distance        |-> distance]

\* _format_results(chroma_results)
FormatResults(chroma_results) ==
    [i \in 1..Len(chroma_results) |->
        Result(chroma_results[i].id, chroma_results[i].document,
               chroma_results[i].metadata, <<Round4(chroma_results[i].distance)>>)]

\* the stable sort of chunks.sort(key=...): x goes behind the elements whose
\* key is not larger
RECURSIVE InsertByKey(_, _)
InsertByKey(sorted, x) ==
    IF sorted = <<>> THEN <<x>>
    ELSE IF Head(sorted).question_number <= x.question_number
         THEN <<Head(sorted)>> \o InsertByKey(Tail(sorted), x)
         ELSE <<x>> \o sorted

\* a sort that leaves the list as the collection returned it
SortByQuestionNumberNot(chunks) == chunks
\* chunks.sort(key=lambda c: c["question_number"] or 0); every entry the
\* Indexer writes has a number, for which "or 0" changes nothing
RECURSIVE SortByQuestionNumber(_)
SortByQuestionNumber(chunks) ==
    IF chunks = <<>> THEN <<>>
    ELSE InsertByKey(SortByQuestionNumber(SubSeq(chunks, 1, Len(chunks) - 1)),
                     chunks[Len(chunks)])

\* what a search does with the collection once it has the query vector:
\* n_results = min(top_k, collection.count()), collection.query, _format_results.
\* The collection rejects a query for zero results when zeroResults is
\* "rejected", and a $gte / $lte condition on a text when textRange is
\* "rejected"; otherwise it selects, ranks and cuts.
QueryRun(run, where, top_k, query_embedding, ranked, zeroResults, textRange) ==
    LET entries   == store[1]
        n_results == Min(top_k, Count(entries))
        counted   == [run EXCEPT !.count = Count(entries), !.n_results = n_results]
    IN  IF \/ (n_results <= 0 /\ zeroResults = "rejected")
           \/ (HasTextRange(where) /\ textRange = "rejected")
        THEN [counted EXCEPT !.outcome = "rejected"]
        ELSE [counted EXCEPT
                !.outcome = "ok",
                !.results = FormatResults(CollectionQuery(ranked, query_embedding, n_results))]

\* the record of a search before anything is done
SearchRun(op, query, top_k, filters, ollama, version) ==
    [op |-> op, query |-> query, top_k |-> top_k, filters |-> filters,
     ollama |-> ollama, version |-> version,
     outcome |-> "nostore", count |-> 0, n_results |-> 0, results |-> <<>>]

\* semantic_search(query, top_k): _get_collection raises when there is no
\* store, _embed_query raises when the embedding service fails
SemanticSearch(query, top_k, ollama, version, zeroResults) ==
    LET run == SearchRun("semantic_search", query, top_k, NoFilters, ollama, version)
        query_embedding == Embedding(query, version)
    IN  /\ \E ranked \in (IF store = <<>> \/ ollama # "up" THEN {<<>>}
                          ELSE QueryOrders(store[1], <<>>, query_embedding)) :
              lastOp' = IF store = <<>> THEN run
                        ELSE IF ollama # "up" THEN [run EXCEPT !.outcome = "noembed"]
                        ELSE QueryRun(run, <<>>, top_k, query_embedding, ranked,
                                      zeroResults, "rejected")
        /\ UNCHANGED <<cleaned, chunkFiles, chunkSource, allChunks, store>>
        /\ UNCHANGED pureVars

\* hybrid_search(query, top_k, session, book, entity, date_from, date_to)
HybridSearch(query, top_k, filters, ollama, version, zeroResults, textRange) ==
    LET run == SearchRun("hybrid_search", query, top_k, filters, ollama, version)
        where == Where(filters)
        query_embedding == Embedding(query, version)
    IN  /\ \E ranked \in (IF store = <<>> \/ ollama # "up" THEN {<<>>}
                          ELSE QueryOrders(store[1], where, query_embedding)) :
              lastOp' = IF store = <<>> THEN run
                        ELSE IF ollama # "up" THEN [run EXCEPT !.outcome = "noembed"]
                        ELSE QueryRun(run, where, top_k, query_embedding, ranked,
                                      zeroResults, textRange)
        /\ UNCHANGED <<cleaned, chunkFiles, chunkSource, allChunks, store>>
        /\ UNCHANGED pureVars

\* get_by_session(session_n): collection.get(where=session == session_n)
\* returns the selected entries in an order of its own; they are then sorted
GetBySession(session_n) ==
    LET where == <<[field |-> "session", op |-> "$eq", value |-> session_n]>>
        run   == [op |-> "get_by_session", session_n |-> session_n,
                  outcome |-> "nostore", results |-> <<>>]
    IN  /\ \E got \in (IF store = <<>> THEN {<<>>} ELSE Orders(Matching(store[1], where))) :
              lastOp' = IF store = <<>> THEN run
                        ELSE [run EXCEPT
                                !.outcome = "ok",
                                !.results = SortByQuestionNumber(
                                    [i \in 1..Len(got) |->
                                        Result(got[i].id, got[i].document,
                                               got[i].metadata, <<>>)])]
        /\ UNCHANGED <<cleaned, chunkFiles, chunkSource, allChunks, store>>
        /\ UNCHANGED pureVars

(***************************************************************************)
(* SpecSearch: the retriever over the stores the Indexer builds from a     *)
(* cleaned and chunked corpus.                                             *)
(***************************************************************************)
TopKs == 1..MaxTopK
\* the filters given to hybrid_search: every combination of session, book,
\* entity and date_to given and not given, date_from alone and with others,
\* all five, and combinations that no chunk of the corpus satisfies
FilterArgs ==
    [session : {<<>>, <<27>>}, book : {<<>>, <<2>>}, entity : {<<>>, <<"Ra">>},
     date_from : {<<>>}, date_to : {<<>>, <<DATE_LONG>>}]
    \cup {[NoFilters EXCEPT !.date_from = <<DATE_1981_START>>],
          [NoFilters EXCEPT !.date_from = <<DATE_1981_START>>, !.date_to = <<DATE_LONG>>],
          [NoFilters EXCEPT !.date_from = <<DATE_1981_START>>, !.session = <<27>>],
          [session |-> <<27>>, book |-> <<2>>, entity |-> <<"Ra">>,
           date_from |-> <<DATE_1981_START>>, date_to |-> <<DATE_LONG>>],
          [NoFilters EXCEPT !.session = <<1>>],
          [NoFilters EXCEPT !.session = <<1>>, !.book = <<2>>],
          [NoFilters EXCEPT !.entity = <<"Latwii">>],
          [NoFilters EXCEPT !.book = <<2>>, !.date_from = <<DATE_1981_START>>,
                            !.date_to = <<DATE_1982_END>>]}
BrowseSessions == {1, 27, 3}

\* the raw pages of the corpus: for every session one of RawDocs
RawCorpora == {raw \in [Sessions -> UNION {RawDocs(n) : n \in Sessions}] :
                  \A n \in Sessions : raw[n] \in RawDocs(n)}

\* the state after clean_all() and chunk_all() on a corpus, nothing indexed
SearchInit ==
    /\ cleaned \in {[n \in Sessions |->
                        IF raw[n] = <<>> THEN <<>> ELSE <<CleanRecords[n][raw[n]]>>] :
                    raw \in RawCorpora}
    /\ LET order == SortedSessions({n \in Sessions : cleaned[n] # <<>>})
           done  == ChunkFilesFrom([n \in Sessions |-> <<>>], order, 1, FALSE)
       IN  /\ chunkFiles = done.files
           /\ allChunks = IF order = <<>> THEN <<>> ELSE <<done.all_chunks>>
    /\ chunkSource = cleaned
    /\ store = <<>>
    /\ lastOp = [op |-> "none"]
    /\ idArgs = <<>> /\ idRes = <<>>
    /\ record = <<>> /\ chunked = <<>> /\ rechunked = <<>>
    /\ document = <<>> /\ extracted = <<>>

SearchNext ==
    \/ \E force \in BOOLEAN, ollama \in {"up", "down", "nomodel"} :
          \E failAt \in (IF ollama = "up" THEN 0..MaxFailAt ELSE {0}),
             version \in (IF ollama = "up" THEN 1..MaxEmbedVersions ELSE {1}) :
             EmbedAndStore(force, ollama, failAt, version)
    \/ \E top_k \in TopKs, ollama \in {"up", "down"} :
          \E version \in (IF ollama = "up" THEN 1..MaxEmbedVersions ELSE {1}),
             zeroResults \in (IF ollama = "up" /\ store = <<EmptyBag>>
                              THEN {"rejected", "empty"} ELSE {"rejected"}) :
             SemanticSearch(QUERY_X, top_k, ollama, version, zeroResults)
    \/ \E ollama \in {"up", "down"} :
          \E top_k \in (IF ollama = "up" THEN TopKs ELSE {1}),
             filters \in (IF ollama = "up" THEN FilterArgs ELSE {NoFilters}) :
             \E zeroResults \in (IF ollama = "up" /\ store = <<EmptyBag>>
                                 THEN {"rejected", "empty"} ELSE {"rejected"}),
                textRange \in (IF ollama = "up" /\ store # <<>>
                                  /\ HasTextRange(Where(filters))
                               THEN {"rejected", "lexicographic"} ELSE {"rejected"}) :
                HybridSearch(QUERY_X, top_k, filters, ollama, 1, zeroResults, textRange)
    \/ \E session_n \in BrowseSessions : GetBySession(session_n)

SpecSearch == SearchInit /\ [][SearchNext]_vars

(***************************************************************************)
(* Properties of the retriever (SpecSearch).                               *)
(***************************************************************************)
IsSemantic == lastOp.op = "semantic_search"
IsHybrid == lastOp.op = "hybrid_search"
IsSearch == IsSemantic \/ IsHybrid
IsBrowse == lastOp.op = "get_by_session"

\* x (a result, or the metadata of an entry) satisfies every filter given
SatisfiesFilters(x, f) ==
    /\ f.session # <<>> => x.session = f.session[1]
    /\ f.book # <<>> => x.book = f.book[1]
    /\ f.entity # <<>> => x.entity = f.entity[1]
    /\ f.date_from # <<>> => ~StrLess(x.date, f.date_from[1])
    /\ f.date_to # <<>> => ~StrLess(f.date_to[1], x.date)

\* m: the number of stored chunks that satisfy every filter given
MatchCount(f) ==
    Cardinality({e \in BagToSet(Entries) : SatisfiesFilters(e.metadata, f)})

HasDateFilter(f) == f.date_from # <<>> \/ f.date_to # <<>>

ResultIds(results) == {results[i].id : i \in 1..Len(results)}

\* the stored entry of an id
EntryOf(id) == CHOOSE e \in BagToSet(Entries) : e.id = id

\* C13: on an index of n >= 1 chunks, semantic_search with top_k >= 1 (the
\* embedding service answering) returns exactly min(top_k, n) results, each a
\* different stored chunk.
C13_SemanticReturnsMinTopKCount ==
    (IsSemantic /\ lastOp.ollama = "up" /\ Count(Entries) >= 1 /\ lastOp.top_k >= 1) =>
        /\ lastOp.outcome = "ok"
        /\ Len(lastOp.results) = Min(lastOp.top_k, Count(Entries))
        /\ Cardinality(ResultIds(lastOp.results)) = Len(lastOp.results)
        /\ ResultIds(lastOp.results) \subseteq StoredIds

\* top_k larger than the index: capped to the two chunks there are
C13_Witness ==
    /\ IsSemantic /\ lastOp.outcome = "ok"
    /\ Count(Entries) = 2
    /\ lastOp.top_k > 2
    /\ Len(lastOp.results) = 2

\* C14: the results of a search are in non-decreasing order of the distance
\* returned, which is the entry's distance to the query rounded to four
\* places; they are in non-decreasing order of the unrounded distance too.
C14_ResultsByAscendingDistance ==
    (IsSearch /\ lastOp.outcome = "ok") =>
        LET res == lastOp.results
            raw(i) == Distance(Embedding(lastOp.query, lastOp.version),
                               EntryOf(res[i].id).embedding)
        IN  /\ \A i \in 1..Len(res) :
                  /\ res[i].distance = <<Round4(raw(i))>>
                  /\ 2 * Abs(res[i].distance[1] - raw(i))
                        <= 10 ^ (DistanceDigits - RoundDigits)
            /\ \A i \in 1..(Len(res) - 1) :
                  /\ res[i].distance[1] <= res[i + 1].distance[1]
                  /\ raw(i) <= raw(i + 1)

\* three results at three different distances, one of them changed by rounding
C14_Witness ==
    /\ IsSemantic /\ lastOp.outcome = "ok"
    /\ Len(lastOp.results) = 3
    /\ lastOp.results[1].distance[1] < lastOp.results[2].distance[1]
    /\ lastOp.results[2].distance[1] < lastOp.results[3].distance[1]
    /\ \E i \in 1..3 :
          lastOp.results[i].distance[1] #
              Distance(Embedding(lastOp.query, lastOp.version),
                       EntryOf(lastOp.results[i].id).embedding)

\* C15: every result hybrid_search returns satisfies all the filters given:
\* session, book and entity equal, date not before date_from and not after
\* date_to in the order of str.
C15_ResultsSatisfyAllFilters ==
    (IsHybrid /\ lastOp.outcome = "ok") =>
        \A i \in 1..Len(lastOp.results) :
            /\ SatisfiesFilters(lastOp.results[i], lastOp.filters)
            /\ lastOp.results[i].id \in StoredIds

\* an equality filter and a date bound together: results returned, and stored
\* chunks left out although top_k had room for them
C15_Witness ==
    /\ IsHybrid /\ lastOp.outcome = "ok"
    /\ lastOp.filters.entity # <<>> /\ lastOp.filters.date_to # <<>>
    /\ lastOp.results # <<>>
    /\ Len(lastOp.results) < Count(Entries)
    /\ lastOp.top_k >= Count(Entries)

\* C16 as stated: on a non-empty index hybrid_search (the embedding service
\* answering) returns exactly min(top_k, m) results, m the number of stored
\* chunks that satisfy all filters; it returns an empty list, and does not
\* raise, when m = 0.
C16_ReturnsMinTopKMatching ==
    (IsHybrid /\ lastOp.ollama = "up" /\ Count(Entries) >= 1) =>
        /\ lastOp.outcome = "ok"
        /\ Len(lastOp.results) = Min(lastOp.top_k, MatchCount(lastOp.filters))

\* C17 as stated: on an index that holds no chunk, semantic_search and
\* hybrid_search (the embedding service answering) return an empty list and
\* do not raise.
C17_EmptyCorpusReturnsEmpty ==
    (IsSearch /\ lastOp.ollama = "up" /\ Count(Entries) = 0) =>
        /\ lastOp.outcome = "ok"
        /\ lastOp.results = <<>>

\* C18: the results of get_by_session are in strictly ascending order of
\* question_number.
C18_BrowseStrictlyAscending ==
    (IsBrowse /\ lastOp.outcome = "ok") =>
        \A i \in 1..(Len(lastOp.results) - 1) :
            lastOp.results[i].question_number < lastOp.results[i + 1].question_number

\* the two chunks of a session, in order
C18_Witness ==
    /\ IsBrowse /\ lastOp.outcome = "ok"
    /\ Len(lastOp.results) = 2
    /\ lastOp.results[1].question_number = 1
    /\ lastOp.results[2].question_number = 2

\* a chunk as get_by_session is to return it: its fields, and distance None
ChunkAsResult(c) ==
    [f \in DOMAIN c \cup {"distance"} |-> IF f = "distance" THEN <<>> ELSE c[f]]

\* the chunks of session g in the chunk set
ChunksOfSession(g) ==
    {allChunks[1][i] : i \in {k \in 1..Len(allChunks[1]) : allChunks[1][k].session = g}}

\* C19: once the chunk set is indexed, get_by_session(g) returns exactly the
\* chunks of the set whose session is g, each once, each with the id, text,
\* session, book, date, question_number, source_url, questioner and entity of
\* the chunk, and with distance None.
C19_BrowseReturnsIndexedChunks ==
    (IsBrowse /\ lastOp.outcome = "ok" /\ Count(Entries) >= 1) =>
        /\ {lastOp.results[i] : i \in 1..Len(lastOp.results)}
              = {ChunkAsResult(c) : c \in ChunksOfSession(lastOp.session_n)}
        /\ Len(lastOp.results) = Cardinality(ChunksOfSession(lastOp.session_n))

\* the two chunks of one session returned from an index that holds three
C19_Witness ==
    /\ IsBrowse /\ lastOp.outcome = "ok"
    /\ Count(Entries) = 3
    /\ Len(lastOp.results) = 2
    /\ \A i \in 1..2 : lastOp.results[i].distance = <<>>
                       /\ lastOp.results[i].session = lastOp.session_n

(***************************************************************************)
(* SpecClean: extract_qa_pairs_from_html applied to one document.          *)
(***************************************************************************)
\* largest number of blocks a document is put together from
MaxBlocks == 3

\* the text "Questioner: Why?\n"
BLOCK_QUESTION ==
    <<81, 117, 101, 115, 116, 105, 111, 110, 101, 114, 58, 32, 87, 104, 121,
      63, 10>>

\* the text "Questioner: What is the Law of One?\n"
BLOCK_QUESTION_LAW ==
    <<81, 117, 101, 115, 116, 105, 111, 110, 101, 114, 58, 32, 87, 104, 97,
      116, 32, 105, 115, 32, 116, 104, 101, 32, 76, 97, 119, 32, 111, 102,
      32, 79, 110, 101, 63, 10>>

\* the text "Ra: I am Ra. Yes.\n"
BLOCK_ANSWER ==
    <<82, 97, 58, 32, 73, 32, 97, 109, 32, 82, 97, 46, 32, 89, 101, 115, 46,
      10>>

\* the text "7.3 Questioner: Why? "
BLOCK_NUMBERED_QUESTION ==
    <<55, 46, 51, 32, 81, 117, 101, 115, 116, 105, 111, 110, 101, 114, 58,
      32, 87, 104, 121, 63, 32>>

\* the text "7.3 Ra: I am Ra. Yes. "
BLOCK_NUMBERED_ANSWER ==
    <<55, 46, 51, 32, 82, 97, 58, 32, 73, 32, 97, 109, 32, 82, 97, 46, 32,
      89, 101, 115, 46, 32>>

\* the text "Session 9\n\n"
BLOCK_HEADER ==
    <<83, 101, 115, 115, 105, 111, 110, 32, 57, 10, 10>>

\* the text "What is the Law of One?\n"
BLOCK_PARAGRAPH ==
    <<87, 104, 97, 116, 32, 105, 115, 32, 116, 104, 101, 32, 76, 97, 119, 32,
      111, 102, 32, 79, 110, 101, 63, 10>>

\* the text "\n\n\n"
BLOCK_BREAK ==
    <<10, 10, 10>>

\* pieces of transcripts: two labelled questions, an answer at a line start, the
\* same two in the numbered one-line layout, a session header, a paragraph
\* without a label, and blank lines
Blocks ==
    {BLOCK_QUESTION, BLOCK_QUESTION_LAW, BLOCK_ANSWER, BLOCK_NUMBERED_QUESTION, BLOCK_NUMBERED_ANSWER,
     BLOCK_HEADER, BLOCK_PARAGRAPH, BLOCK_BREAK}

RECURSIVE Concat(_)
Concat(texts) == IF texts = <<>> THEN <<>> ELSE Head(texts) \o Concat(Tail(texts))

\* the document texts: up to MaxBlocks blocks one after the other
Documents == {Concat(bs) : bs \in UNION {[1..k -> Blocks] : k \in 0..MaxBlocks}}

CleanInit ==
    /\ document \in {<<d>> : d \in Documents}
    /\ extracted = <<>>
    /\ idArgs = <<>> /\ idRes = <<>>
    /\ record = <<>> /\ chunked = <<>> /\ rechunked = <<>>
    /\ cleaned = <<>> /\ chunkFiles = <<>> /\ chunkSource = <<>> /\ allChunks = <<>>
    /\ store = <<>> /\ lastOp = <<>>

\* extract_qa_pairs_from_html on the text of the document; pass tells which
\* parser's pairs were returned
ExtractPairs ==
    /\ extracted = <<>>
    /\ LET normalized == NormalizeWhitespace(document[1])
           first      == ParseQaPairs(normalized)
       IN  extracted' = <<[pairs    |-> ExtractQaPairs(document[1]),
                           pass     |-> IF first = <<>> THEN "fallback" ELSE "segments",
                           segments |-> Len(RaSplit(normalized)) - 1]>>
    /\ UNCHANGED <<document, idArgs, idRes, record, chunked, rechunked>>
    /\ UNCHANGED pipeVars

CleanNext == ExtractPairs

SpecClean == CleanInit /\ [][CleanNext]_vars

\* C20: whichever pass produced them, the pairs returned for a document carry
\* the question numbers 1, 2, ..., n in this order
C20_NumberedFromOneInOrder ==
    extracted # <<>> =>
        \A i \in 1..Len(extracted[1].pairs) : extracted[1].pairs[i].question_number = i

\* the first pass skipped a segment and accepted a later one: the accepted
\* pair is not at the position of its number
C20_Witness ==
    /\ extracted # <<>>
    /\ extracted[1].pass = "segments"
    /\ extracted[1].pairs # <<>>
    /\ Len(extracted[1].pairs) < extracted[1].segments
    /\ document[1] = BLOCK_ANSWER \o BLOCK_QUESTION \o BLOCK_ANSWER

\* the numbered pass returned two pairs from a text whose own numbers are 7.3
C20_WitnessFallback ==
    /\ extracted # <<>>
    /\ extracted[1].pass = "fallback"
    /\ Len(extracted[1].pairs) = 2

\* the pairs each parser returns on the normalized text of the document
FirstPassPairs == ParseQaPairs(NormalizeWhitespace(document[1]))
FallbackPairs == ParseQaPairsFallback(NormalizeWhitespace(document[1]))

\* C21: the numbered fallback is used only when the first pass returned no
\* pair; the result is the output of the first pass when it returned any pair,
\* else the output of the fallback, and never holds pairs of both
C21_FirstPassWithPairsWins ==
    extracted # <<>> =>
        /\ (extracted[1].pass = "fallback") <=> (FirstPassPairs = <<>>)
        /\ FirstPassPairs # <<>> => extracted[1].pairs = FirstPassPairs
        /\ FirstPassPairs = <<>> => extracted[1].pairs = FallbackPairs

\* both parsers find a pair in the document, and only the first pass's is returned
C21_Witness ==
    /\ extracted # <<>>
    /\ FirstPassPairs # <<>> /\ FallbackPairs # <<>>
    /\ FallbackPairs # FirstPassPairs
    /\ extracted[1].pairs = FirstPassPairs

\* the question a labelled question block asks
TurnQuestion(block) == IF block = BLOCK_QUESTION THEN Q_WHY ELSE Q_LAW

QuestionBlocks == {BLOCK_QUESTION, BLOCK_QUESTION_LAW}

\* the document is three turns: a question, an answer, a question
IsThreeTurns ==
    \E q1 \in QuestionBlocks, q2 \in QuestionBlocks : document[1] = q1 \o BLOCK_ANSWER \o q2

DOT_HTML == <<46, 104, 116, 109, 108>>
\* what stands between "session-" and ".html" in the names of the raw files:
\* "001" and "027" as the scraper writes them, "1" without padding, "x"
NAME_001 == <<48, 48, 49>>
NAME_027 == <<48, 50, 55>>
NAME_1 == <<49>>
NAME_X == <<120>>
RawNames == {NAME_001, NAME_027, NAME_1, NAME_X}

\* the raw directories: for every name <<text>>, or <<>> when there is no such file
RawDirs ==
    {dir \in [RawNames -> UNION {RawDocs(n) : n \in Sessions}] :
        /\ dir[NAME_001] \in RawDocs(1)
        /\ dir[NAME_027] \in RawDocs(27)
        /\ dir[NAME_1] \in {<<>>, <<DOC_NUMBERED>>}
        /\ dir[NAME_X] \in {<<>>, <<DOC_NUMBERED>>}}

\* raw_path.exists() / read_text() of session-{n:03d}.html in a directory
RawFile(dir, n) == IF Pad03d(n) \in RawNames THEN dir[Pad03d(n)] ELSE <<>>

\* sorted(RAW_DIR.glob("session-*.html")): the names present, in str order
SortedNames(dir) ==
    LET present == {name \in RawNames : dir[name] # <<>>}
    IN  CHOOSE seq \in [1..Cardinality(present) -> present] :
            /\ Range(seq) = present
            /\ \A i, j \in 1..Cardinality(present) :
                   i < j => StrLess(seq[i] \o DOT_HTML, seq[j] \o DOT_HTML)

\* re.match(r"session-(\d+)\.html", name)
MatchesSessionName(name) == name # <<>> /\ \A i \in 1..Len(name) : IsDigit(name[i])

\* a clean_session that treats a document without pairs as a failure
CleanSessionResultDropEmpty(files, n, raw, force) ==
    IF files[n] # <<>> /\ ~force
    THEN [files |-> files, result |-> <<>>, log |-> "already cleaned"]
    ELSE IF raw = <<>> \/ CleanRecords[n][raw].raw_pairs = <<>>
    THEN [files |-> files, result |-> <<>>, log |-> "raw file not found"]
    ELSE [files  |-> [files EXCEPT ![n] = <<CleanRecords[n][raw]>>],
          result |-> <<CleanRecords[n][raw]>>,
          log    |-> "extracted"]

\* clean_session(n, force) with the cleaned files and the raw file as given:
\* the cleaned files after it, <<what it returns>> (<<>> for None), what it logs
CleanSessionResult(files, n, raw, force) ==
    IF files[n] # <<>> /\ ~force
    THEN [files |-> files, result |-> <<>>, log |-> "already cleaned"]
    ELSE IF raw = <<>>
    THEN [files |-> files, result |-> <<>>, log |-> "raw file not found"]
    ELSE LET Written(rec) == [files  |-> [files EXCEPT ![n] = <<rec>>],
                              result |-> <<rec>>,
                              log    |-> "extracted"]
         IN  Written(CleanRecords[n][raw])

\* the loop of clean_all over raw_files, from the k-th name
RECURSIVE CleanAllFrom(_, _, _, _, _, _)
CleanAllFrom(files, dir, order, k, force, results) ==
    IF k > Len(order) THEN [files |-> files, results |-> results]
    ELSE IF ~MatchesSessionName(order[k])
    THEN CleanAllFrom(files, dir, order, k + 1, force, results)
    ELSE LET n == DigitsValue(order[k])
             Tally(r) ==
                 LET visit == [n |-> n, log |-> r.log]
                 IN  IF r.result = <<>>
                     THEN IF r.files[n] # <<>>
                          THEN [results EXCEPT !.skipped = Append(@, n),
                                               !.visits = Append(@, visit)]
                          ELSE [results EXCEPT !.failed = Append(@, n),
                                               !.visits = Append(@, visit)]
                     ELSE [results EXCEPT !.success = Append(@, n),
                                          !.visits = Append(@, visit)]
             Visit(r) == CleanAllFrom(r.files, dir, order, k + 1, force, Tally(r))
         IN  Visit(CleanSessionResult(files, n, RawFile(dir, n), force))

\* clean_session(n, force), every branch of it
NormCleanSession(n, raw, force) ==
    LET Returned(r) ==
            /\ cleaned' = r.files
            /\ lastOp' = [op |-> "clean_session", n |-> n, force |-> force, raw |-> raw,
                          before |-> cleaned, result |-> r.result, log |-> r.log]
    IN  /\ Returned(CleanSessionResult(cleaned, n, raw, force))
        /\ UNCHANGED <<chunkFiles, chunkSource, allChunks, store>>
        /\ UNCHANGED pureVars

\* clean_all(force) over a raw directory; visits is the log, one line a session
NormCleanAll(dir, force) ==
    LET Returned(done) ==
            /\ cleaned' = done.files
            /\ lastOp' = [op |-> "clean_all", force |-> force, dir |-> dir,
                          before |-> cleaned, results |-> done.results]
    IN  /\ Returned(CleanAllFrom(cleaned, dir, SortedNames(dir), 1, force,
                                 [success |-> <<>>, skipped |-> <<>>, failed |-> <<>>,
                                  visits |-> <<>>]))
        /\ UNCHANGED <<chunkFiles, chunkSource, allChunks, store>>
        /\ UNCHANGED pureVars

NormInit == Init

NormNext ==
    \/ \E n \in Sessions, force \in BOOLEAN :
          \E raw \in RawDocs(n) : NormCleanSession(n, raw, force)
    \/ \E dir \in RawDirs, force \in BOOLEAN : NormCleanAll(dir, force)

SpecNormalize == NormInit /\ [][NormNext]_vars

IsCleanSession == lastOp.op = "clean_session"
IsCleanAll == lastOp.op = "clean_all"

\* C23: a raw document without any extractable pair is cleaned like any other:
\* clean_session writes and returns a record whose pair list is empty, and
\* clean_all lists the session under success, whereas for a missing document
\* clean_session returns nothing and clean_all never lists success
C23_ZeroPairsStillARecord ==
    /\ IsCleanSession =>
          /\ (lastOp.raw # <<>> /\ (lastOp.before[lastOp.n] = <<>> \/ lastOp.force)
                /\ ExtractQaPairs(lastOp.raw[1]) = <<>>) =>
                   /\ lastOp.result # <<>>
                   /\ lastOp.result[1].raw_pairs = <<>>
                   /\ lastOp.result[1].session = lastOp.n
                   /\ cleaned[lastOp.n] = lastOp.result
          /\ lastOp.raw = <<>> => lastOp.result = <<>>
    /\ IsCleanAll =>
          \A n \in Sessions :
              /\ (RawFile(lastOp.dir, n) # <<>> /\ (lastOp.before[n] = <<>> \/ lastOp.force)
                    /\ ExtractQaPairs(RawFile(lastOp.dir, n)[1]) = <<>>) =>
                       /\ n \in Range(lastOp.results.success)
                       /\ n \notin Range(lastOp.results.failed)
                       /\ cleaned[n] # <<>> /\ cleaned[n][1].raw_pairs = <<>>
              /\ RawFile(lastOp.dir, n) = <<>> => n \notin Range(lastOp.results.success)

\* clean_session has just cleaned a document without pairs
C23_Witness ==
    /\ IsCleanSession
    /\ lastOp.raw = <<DOC_NONE>>
    /\ lastOp.result # <<>>
    /\ lastOp.result[1].raw_pairs = <<>>
    /\ cleaned[1] = lastOp.result

\* the sessions clean_all went to clean and whose raw document was missing
MissingVisited ==
    {n \in Sessions :
        /\ \E k \in 1..Len(lastOp.results.visits) : lastOp.results.visits[k].n = n
        /\ RawFile(lastOp.dir, n) = <<>>
        /\ (lastOp.before[n] = <<>> \/ lastOp.force)}

\* C24: a session whose raw document is missing when the Normalizer goes to
\* read it is skipped with the warning, no record is written for it, and
\* clean_all lists it under failed and neither under success nor under skipped
C24_MissingRawIsFailed ==
    /\ IsCleanSession =>
          ((lastOp.raw = <<>> /\ (lastOp.before[lastOp.n] = <<>> \/ lastOp.force)) =>
              /\ lastOp.result = <<>>
              /\ lastOp.log = "raw file not found"
              /\ cleaned = lastOp.before)
    /\ IsCleanAll =>
          \A n \in MissingVisited :
              /\ cleaned[n] = lastOp.before[n]
              /\ n \in Range(lastOp.results.failed)
              /\ n \notin Range(lastOp.results.success)
              /\ n \notin Range(lastOp.results.skipped)

\* the text has the form YYYY-MM-DD
IsIsoDate(s) ==
    /\ Len(s) = 10
    /\ \A k \in {1, 2, 3, 4, 6, 7, 9, 10} : IsDigit(s[k])
    /\ s[5] = 45 /\ s[8] = 45

\* C25: the date of every SessionRecord the Normalizer has written is a date
\* of the form YYYY-MM-DD or the text "unknown"
C25_DateIsoOrUnknown ==
    \A n \in Sessions :
        cleaned[n] # <<>> =>
            (IsIsoDate(cleaned[n][1].date) \/ cleaned[n][1].date = UNKNOWN)

\* C29: in the pairs of the textual pass no answer holds the label
\* "Questioner:", that is, no answer runs on into the following question
C29_AnswerWithoutQuestionLabel ==
    (extracted # <<>> /\ extracted[1].pass = "segments") =>
        \A i \in 1..Len(extracted[1].pairs) :
            FindCI(extracted[1].pairs[i].answer, 1, QUESTIONER_LOWER) = 0

MaxStreamChunks == 2

\* what semantic_search or hybrid_search may do on the store as it is: the
\* run records of the possible outcomes
SearchRuns(op, query, top_k, filters, ollama, version, zeroResults, textRange) ==
    LET run   == SearchRun(op, query, top_k, filters, ollama, version)
        where == IF op = "hybrid_search" THEN Where(filters) ELSE <<>>
        query_embedding == Embedding(query, version)
    IN  IF store = <<>> THEN {run}
        ELSE IF ollama # "up" THEN {[run EXCEPT !.outcome = "noembed"]}
        ELSE {QueryRun(run, where, top_k, query_embedding, ranked, zeroResults, textRange) :
                 ranked \in QueryOrders(store[1], where, query_embedding)}

\* the exception a search ends with: _get_collection and _embed_query raise
\* RuntimeError, a query the collection rejects raises the store library's
\* own exception, which is no RuntimeError
Raised(run) ==
    IF run.outcome \in {"nostore", "noembed"} THEN "RuntimeError"
    ELSE IF run.outcome = "rejected" THEN "Exception"
    ELSE "none"

\* POST /search: hybrid_search with the filters of the request, RuntimeError
\* answered with 503, any other exception with 500
SearchEndpoint(top_k, filters, ollama, zeroResults, textRange) ==
    /\ \E run \in SearchRuns("hybrid_search", QUERY_X, top_k, filters, ollama, 1,
                             zeroResults, textRange) :
          lastOp' = [op      |-> "POST /search",
                     run     |-> run,
                     status  |-> IF Raised(run) = "RuntimeError" THEN 503
                                 ELSE IF Raised(run) = "Exception" THEN 500
                                 ELSE 200,
                     results |-> IF Raised(run) = "none" THEN run.results ELSE <<>>,
                     total   |-> IF Raised(run) = "none" THEN Len(run.results) ELSE 0]
    /\ UNCHANGED <<cleaned, chunkFiles, chunkSource, allChunks, store>>
    /\ UNCHANGED pureVars

\* _extract_citations(chunks)
ExtractCitations(chunks) ==
    [i \in 1..Len(chunks) |->
        [id                 |-> chunks[i].id,
         session            |-> chunks[i].session,
         book               |-> chunks[i].book,
         date               |-> chunks[i].date,
         question_number    |-> chunks[i].question_number,
         source_url         |-> chunks[i].source_url,
         relevance_distance |-> chunks[i].distance]]

\* stream_with_citations with the chat request made before the prompt is built
StreamOrderRequestFirst(pc) ==
    CASE pc = "retrieve"  -> "citations"
      [] pc = "citations" -> "request"
      [] pc = "request"   -> "prompt"
      [] pc = "prompt"    -> "tokens"

\* the order of the statements of stream_with_citations: retrieval, the yield
\* of the citations, build_prompt, client.chat(stream=True), the loop
StreamOrder(pc) ==
    CASE pc = "retrieve"  -> "citations"
      [] pc = "citations" -> "prompt"
      [] pc = "prompt"    -> "request"
      [] pc = "request"   -> "tokens"

IsStream == lastOp.op = "GET /chat/stream"
StreamAt(pc) == IsStream /\ lastOp.pc = pc

\* GET /chat/stream: the StreamingResponse is made; nothing has run yet
ChatStream(top_k, session_filter, book_filter) ==
    /\ lastOp' = [op |-> "GET /chat/stream", pc |-> "retrieve",
                  top_k |-> top_k,
                  filters |-> [NoFilters EXCEPT !.session = session_filter,
                                                !.book = book_filter],
                  run |-> <<>>, calls |-> <<>>, events |-> <<>>, chunks |-> 0]
    /\ UNCHANGED <<cleaned, chunkFiles, chunkSource, allChunks, store>>
    /\ UNCHANGED pureVars

\* stream_with_citations up to its first yield: hybrid_search when a filter is
\* given, else semantic_search.  A RuntimeError is caught by event_generator,
\* which yields the error event and ends; another exception is not caught
StreamRetrieve(ollama, zeroResults) ==
    /\ StreamAt("retrieve")
    /\ LET op == IF lastOp.filters.session # <<>> \/ lastOp.filters.book # <<>>
                 THEN "hybrid_search" ELSE "semantic_search"
       IN  \E run \in SearchRuns(op, QUERY_X, lastOp.top_k, lastOp.filters, ollama, 1,
                                 zeroResults, "rejected") :
              lastOp' = [lastOp EXCEPT
                           !.run = <<run>>,
                           !.calls = Append(@, "retrieve"),
                           !.events = IF Raised(run) = "RuntimeError"
                                      THEN Append(@, [type |-> "error"]) ELSE @,
                           !.pc = IF Raised(run) = "RuntimeError" THEN "closed"
                                  ELSE IF Raised(run) = "Exception" THEN "aborted"
                                  ELSE StreamOrder("retrieve")]
    /\ UNCHANGED <<cleaned, chunkFiles, chunkSource, allChunks, store>>
    /\ UNCHANGED pureVars

\* yield {"type": "citations", ...}
StreamYieldCitations ==
    /\ StreamAt("citations")
    /\ lastOp' = [lastOp EXCEPT
                    !.events = Append(@, [type |-> "citations",
                                          data |-> ExtractCitations(lastOp.run[1].results)]),
                    !.pc = StreamOrder("citations")]
    /\ UNCHANGED <<cleaned, chunkFiles, chunkSource, allChunks, store>>
    /\ UNCHANGED pureVars

\* build_prompt(user_query, chunks)
StreamBuildPrompt ==
    /\ StreamAt("prompt")
    /\ lastOp' = [lastOp EXCEPT !.calls = Append(@, "prompt"),
                                !.pc = StreamOrder("prompt")]
    /\ UNCHANGED <<cleaned, chunkFiles, chunkSource, allChunks, store>>
    /\ UNCHANGED pureVars

\* client.chat(..., stream=True): the generation service is asked
StreamRequest ==
    /\ StreamAt("request")
    /\ lastOp' = [lastOp EXCEPT !.calls = Append(@, "generate"),
                                !.pc = StreamOrder("request")]
    /\ UNCHANGED <<cleaned, chunkFiles, chunkSource, allChunks, store>>
    /\ UNCHANGED pureVars

\* one turn of the loop over stream_response.  The generation service sends a
\* chunk with content, a chunk without, ends the stream, or fails; the client
\* library's exception for a failed call is no RuntimeError (query() wraps
\* it in one, this function does not), so event_generator does not catch it
StreamNext(llm) ==
    /\ StreamAt("tokens")
    /\ llm \in {"content", "empty"} => lastOp.chunks < MaxStreamChunks
    /\ lastOp' =
         CASE llm = "content" ->
                [lastOp EXCEPT !.chunks = @ + 1,
                               !.events = Append(@, [type |-> "token", data |-> "tok"])]
           [] llm = "empty" -> [lastOp EXCEPT !.chunks = @ + 1]
           [] llm = "end" ->
                [lastOp EXCEPT !.events = Append(@, [type |-> "done"]), !.pc = "closed"]
           [] llm = "fail" -> [lastOp EXCEPT !.pc = "aborted"]
    /\ UNCHANGED <<cleaned, chunkFiles, chunkSource, allChunks, store>>
    /\ UNCHANGED pureVars

\* the requests made to the endpoints
ApiTopKs == {1, MaxTopK}
ApiSearchFilters ==
    {NoFilters,
     [NoFilters EXCEPT !.session = <<27>>],
     [NoFilters EXCEPT !.session = <<1>>, !.book = <<2>>],
     [NoFilters EXCEPT !.date_from = <<DATE_1981_START>>]}
ApiChatFilters == {<<<<>>, <<>>>>, <<<<27>>, <<>>>>, <<<<>>, <<2>>>>}

ApiInit == SearchInit

ApiNext ==
    \/ \E force \in BOOLEAN, ollama \in {"up", "down"} :
          \E failAt \in (IF ollama = "up" THEN 0..1 ELSE {0}) :
             EmbedAndStore(force, ollama, failAt, 1)
    \/ \E top_k \in ApiTopKs, filters \in ApiSearchFilters, ollama \in {"up", "down"} :
          \E zeroResults \in (IF ollama = "up" /\ store = <<EmptyBag>>
                              THEN {"rejected", "empty"} ELSE {"rejected"}),
             textRange \in (IF ollama = "up" /\ store # <<>>
                               /\ HasTextRange(Where(filters))
                            THEN {"rejected", "lexicographic"} ELSE {"rejected"}) :
             SearchEndpoint(top_k, filters, ollama, zeroResults, textRange)
    \/ \E top_k \in ApiTopKs, f \in ApiChatFilters : ChatStream(top_k, f[1], f[2])
    \/ \E ollama \in {"up", "down"} :
          \E zeroResults \in (IF ollama = "up" /\ store = <<EmptyBag>>
                              THEN {"rejected", "empty"} ELSE {"rejected"}) :
             StreamRetrieve(ollama, zeroResults)
    \/ StreamYieldCitations
    \/ StreamBuildPrompt
    \/ StreamRequest
    \/ \E llm \in {"content", "empty", "end", "fail"} : StreamNext(llm)

SpecApi == ApiInit /\ [][ApiNext]_vars

IsSearchEndpoint == lastOp.op = "POST /search"
StreamOver == IsStream /\ lastOp.pc \in {"closed", "aborted"}
TerminalEvents == {i \in 1..Len(lastOp.events) : lastOp.events[i].type \in {"done", "error"}}

\* C26: in a stream the retrieval and the construction of the prompt are done,
\* in this order, before the generation service is asked; the citations event
\* is the first event and the only one of its kind, so it precedes every token
\* event; a stream that ends with done is one citations event, then token
\* events only, then the one done event
C26_CitationsThenTokensThenDone ==
    IsStream =>
        /\ \A i \in 1..Len(lastOp.calls) :
              lastOp.calls[i] = "generate" =>
                  i = 3 /\ lastOp.calls[1] = "retrieve" /\ lastOp.calls[2] = "prompt"
        /\ \A i \in 1..Len(lastOp.events) :
              /\ lastOp.events[i].type = "citations" => i = 1
              /\ lastOp.events[i].type = "token" =>
                     i > 1 /\ lastOp.events[1].type = "citations"
              /\ lastOp.events[i].type = "done" =>
                     /\ i = Len(lastOp.events) /\ i > 1 /\ lastOp.pc = "closed"
                     /\ lastOp.events[1].type = "citations"
                     /\ \A j \in 2..(i - 1) : lastOp.events[j].type = "token"
        /\ lastOp.events # <<>> => "retrieve" \in Range(lastOp.calls)
        /\ Len(lastOp.events) > 1 => "generate" \in Range(lastOp.calls)

\* a stream has ended with done after the citations of retrieved chunks and a token
C26_Witness ==
    /\ StreamAt("closed")
    /\ Len(lastOp.events) >= 3
    /\ lastOp.events[1].type = "citations" /\ lastOp.events[1].data # <<>>
    /\ lastOp.events[2].type = "token"
    /\ lastOp.events[Len(lastOp.events)].type = "done"

\* C27: the search endpoint answers every failed retrieval with 503, and it
\* answers 200 with an empty result list exactly when the retrieval succeeded
\* and no stored chunk satisfies the filters
C27_FailureIs503EmptyIs200 ==
    IsSearchEndpoint =>
        /\ lastOp.run.outcome # "ok" => lastOp.status = 503
        /\ (lastOp.status = 200 /\ lastOp.total = 0)
              <=> (lastOp.run.outcome = "ok" /\ MatchCount(lastOp.run.filters) = 0)

\* C30: a stream that is over ends with a terminal event, done or error, and
\* holds no other terminal event
C30_StreamEndsWithOneTerminal ==
    StreamOver =>
        /\ lastOp.events # <<>>
        /\ lastOp.events[Len(lastOp.events)].type \in {"done", "error"}
        /\ Cardinality(TerminalEvents) = 1

====
